---- MODULE Spec2Model ----
(***************************************************************************)
(* Verification model of the dhlottery add-ons: the authenticated protocol *)
(* client (dhlotto45/dh_lottery_client.py), the pension-720 purchase       *)
(* client and its field cipher (dhyeongeum720/dh_pension_720.py).          *)
(*                                                                         *)
(* Scheduling is asyncio's: one event loop, a coroutine runs until it      *)
(* awaits something that suspends it (a busy lock, a sleep, a network      *)
(* call, a worker thread).  One action = one such slice of one task.       *)
(***************************************************************************)
EXTENDS Integers, Sequences, FiniteSets, TLC

None == "None"

Max(a, b) == IF a >= b THEN a ELSE b

(***************************************************************************)
(* Python values.  A dict is a record with the set of keys it carries;     *)
(* d.get(k, default) reads it.  Text that int() is applied to is a         *)
(* sequence of characters.                                                 *)
(***************************************************************************)
DictGet(d, k, default) == IF k \in d.keys THEN d[k] ELSE default

Digits == {"0", "1", "2", "3", "4", "5", "6", "7", "8", "9"}

DigitVal(c) ==
  CASE c = "0" -> 0 [] c = "1" -> 1 [] c = "2" -> 2 [] c = "3" -> 3
    [] c = "4" -> 4 [] c = "5" -> 5 [] c = "6" -> 6 [] c = "7" -> 7
    [] c = "8" -> 8 [] c = "9" -> 9

IsNumeral(s) == s # <<>> /\ \A i \in 1..Len(s) : s[i] \in Digits

RECURSIVE DigitsValue(_)
DigitsValue(s) ==
  IF s = <<>> THEN 0
  ELSE 10 * DigitsValue(SubSeq(s, 1, Len(s) - 1)) + DigitVal(s[Len(s)])

\* int(s): the number a decimal numeral (with an optional sign) denotes;
\* anything else raises ValueError
PyInt(s) ==
  IF IsNumeral(s) THEN [ok |-> TRUE, val |-> DigitsValue(s)]
  ELSE IF Len(s) > 1 /\ s[1] \in {"-", "+"} /\ IsNumeral(Tail(s))
    THEN [ok |-> TRUE,
          val |-> IF s[1] = "-" THEN 0 - DigitsValue(Tail(s))
                  ELSE DigitsValue(Tail(s))]
  ELSE [ok |-> FALSE, val |-> 0]

\* Python truthiness of an optional str
Truthy(x) == x # None /\ x # ""

(***************************************************************************)
(* Bounds of the model                                                     *)
(***************************************************************************)
\* the tasks make at most this many top-level calls between them
MaxCalls == 2
\* Tick advances the clock at most this far past its first reading (sleeps
\* may pass it)
MaxTime == 2
\* how many identities of the USER_AGENTS pool the model draws from
PoolSize == 2
\* purchases made on one DhPension720 instance
MaxBuys == 2

Tasks == {"t1", "t2"}

(***************************************************************************)
(* Program constants of DhLotteryClient                                    *)
(***************************************************************************)
_min_request_interval == 2
_max_request_interval == 4
_circuit_failure_threshold == 2
_circuit_cooldown == 180
_rsa_key_ttl == 180
\* random.randint(20, 40): the two ends of the range
UaIntervalMin == 20
UaIntervalMax == 40

\* an identity is its index in the pool
USER_AGENTS == 1..PoolSize
\* random.uniform(min, max): the two ends of the range, in seconds
TargetIntervals == {_min_request_interval, _max_request_interval}
RotationIntervals == {UaIntervalMin, UaIntervalMax}
\* retry budgets a caller passes to async_get_with_login (default 1)
Retries == {0, 1}

\* no login form has been answered yet
NoLogin ==
  [task |-> None,
   resp |-> [kind |-> "none", status |-> 0, location |-> FALSE, url |-> FALSE],
   failures |-> 0]

\* time.time() when the model starts: further from 0 than any interval,
\* cooldown or lifetime the client measures
FirstReading == _circuit_cooldown + _rsa_key_ttl + _max_request_interval + 1

\* the windows of the double-press guard, in seconds
_lottery_cooldown == 15
_pension_cooldown == 10

\* when the host started, on the clock time.time() reads
BootTime == FirstReading - 1

VARIABLES
  \* ---- the clock (time.time())
  now,
  \* ---- DhLotteryClient fields
  session,               \* "None" | "open"
  logged_in,
  lock,                  \* holder of self._lock, or None
  lockq,                 \* tasks suspended in self._lock.acquire(), FIFO
  reqlock,               \* holder of self._request_lock, or None
  reqq,                  \* tasks suspended in self._request_lock.acquire()
  last_request_time,
  current_user_agent,
  ua_rotation_count,
  ua_rotation_interval,
  old_ua,                \* _throttle_request's local at the last rotation, 0
                         \* before any
  consecutive_failures,
  last_get,              \* the last answer to a GET of async_get
  last_login,            \* the last answer to a submitted login form, and the
                         \* failure count it found
  circuit_open_time,
  cached_rsa_key,        \* "None" | "good" | "bad" (a key RSA.construct rejects)
  rsa_key_time,
  \* ---- the tasks (coroutines) calling into the client
  pc,                    \* where each task is suspended
  force,                 \* async_login's argument
  caller,                \* who called async_login: "top" | "gwl"
  retry,                 \* async_get_with_login's argument
  ret,                   \* the request a pass through the throttle precedes
  wake,                  \* when the task's asyncio.sleep ends
  rsa_now,               \* _get_rsa_key's local `now`
  result,                \* how the task's last top-level call ended
  calls,                 \* top-level calls made so far, by all tasks
  gets,                  \* raw GETs of the current async_get_with_login call
  relogins,              \* forced relogins started by the current call
  \* ---- what went out on the wire for this account
  lastSend,              \* time of the last outbound request, -1 before any
  gap,                   \* time between the last two requests, -1 before two
  unthrottled,           \* kinds of request sent without a throttle pass
  sent,                  \* how many requests of each kind the client sent
  clear_sent,            \* the credentials that went out as plaintext fields
  \* ---- DhPension720 and one _async_buy invocation
  jsessionid,            \* self._jsessionid: "None", "" or an identifier
  bpc,                   \* where the purchase is suspended
  buys,                  \* purchases started so far
  groups,                \* _async_buy's argument
  round_info,            \* the round-status answer
  p1,                    \* the decrypted order-creation answer
  p2,                    \* the decrypted purchase-execution answer
  phase3,                \* the verification answer
  outcome,               \* what _async_buy returned or raised
  posts,                 \* the encrypted POSTs sent by this invocation
  answers,               \* what the sub-service answers to the visits of
                         \* _ensure_session, where that is fixed beforehand
  \* ---- one _encrypt / _decrypt application
  cpc,                   \* "idle", "chosen", "encrypted" or "decrypted"
  c_plain,               \* the plaintext, as code points
  c_sid,                 \* the session identifier, as characters
  c_salt,                \* the salt _encrypt drew
  c_iv,                  \* the IV _encrypt drew
  c_env,                 \* what _encrypt returned
  c_out,                 \* what _decrypt returned, ok = FALSE if it raised
  \* ---- the add-on's main module
  turn,                  \* where periodic_update's loop over the accounts is
  addon,                 \* which add-on's main module runs
  last_purchase_time,    \* _last_purchase_time[key] for one key, -1 if the
                         \* key is not in it
  press,                 \* the purchase requests for that key: where each
                         \* handler is, and which entry point it came by
  entered                \* when each attempt that reached the purchase
                         \* protocol was invoked

clientVars == <<session, logged_in, lock, lockq, consecutive_failures,
                last_login, last_get, circuit_open_time, cached_rsa_key, rsa_key_time>>
throttleVars == <<reqlock, reqq, last_request_time, ua_rotation_count,
                  ua_rotation_interval, old_ua>>
taskVars == <<pc, force, caller, retry, ret, wake, rsa_now, result, calls,
              gets, relogins>>
histVars == <<lastSend, gap, unthrottled, sent, clear_sent>>
buyVars == <<jsessionid, bpc, buys, groups, round_info, p1, p2, phase3,
             outcome, posts, answers>>
cipherVars == <<cpc, c_plain, c_sid, c_salt, c_iv, c_env, c_out>>
appVars == <<turn, addon, last_purchase_time, press, entered>>

vars == <<now, clientVars, current_user_agent, throttleVars, taskVars,
          histVars, buyVars, cipherVars, appVars>>

(***************************************************************************)
(* asyncio.Lock: acquire() returns at once when the lock is free and no    *)
(* one waits; otherwise the caller is suspended in FIFO order, and is      *)
(* resumed once the lock is free and it is first in line.  The lock has no *)
(* owner check: a task that already holds it waits like anyone else.       *)
(***************************************************************************)
\* a lock that never makes anyone wait
LockFree_never_held(l, q) == TRUE

LockFree(l, q) == l = None /\ q = <<>>

MayResume(l, q, t) == l = None /\ q # <<>> /\ Head(q) = t

(***************************************************************************)
(* The wire: every outbound request of the account is recorded.            *)
(***************************************************************************)
\* the requests that are counted: those DhLotteryClient makes, and the two
\* visits of _ensure_session
Kinds == {"warmup", "key", "login", "get", "pledge", "el_root", "game.jsp"}

\* async_login lines 300-304, the form it posts: each field carries a
\* credential, either as the Credential Cipher's output or as it is
LoginData ==
  [userId |-> [of |-> "username", encrypted |-> TRUE],
   userPswdEncn |-> [of |-> "password", encrypted |-> TRUE],
   inpUserId |-> [of |-> "username", encrypted |-> FALSE]]

\* the credentials a request of the kind carries as plaintext
ClearFields(kind) ==
  IF kind = "login"
    THEN {LoginData[f].of : f \in {g \in DOMAIN LoginData :
                                     ~LoginData[g].encrypted}}
    ELSE {}

Issue(kind, tnow, throttled) ==
  /\ lastSend' = tnow
  /\ gap' = IF lastSend < 0 THEN -1 ELSE tnow - lastSend
  /\ unthrottled' = IF throttled THEN unthrottled ELSE unthrottled \cup {kind}
  /\ sent' = IF kind \in Kinds THEN [sent EXCEPT ![kind] = @ + 1] ELSE sent
  /\ clear_sent' = clear_sent \cup ClearFields(kind)

\* the suspension point of the request a throttle pass precedes
RespPc(kind) ==
  CASE kind = "key" -> "key_resp"
    [] kind = "login" -> "login_resp"
    [] kind = "get" -> "get_resp"
    [] OTHER -> "pledge_resp"

(***************************************************************************)
(* _create_session: the identities the session may start with              *)
(***************************************************************************)
\* a _create_session that draws an identity even when the session is open
CreateSession_redraws == USER_AGENTS

CreateSession == IF session # None THEN {current_user_agent} ELSE USER_AGENTS

(***************************************************************************)
(* _throttle_request.  ua0 is the active identity when it is entered.      *)
(***************************************************************************)
\* a rotation that draws from the whole pool
RotationPool_whole(old) == USER_AGENTS

\* the identities rotation may pick: every one but the active one
RotationPool(old) ==
  IF USER_AGENTS \ {old} # {} THEN USER_AGENTS \ {old} ELSE USER_AGENTS

\* lines 159-169, and the caller's request that follows in the same slice
ThrottlePass(t, kind, tnow, ua0) ==
  /\ last_request_time' = tnow
  /\ IF ua_rotation_count + 1 >= ua_rotation_interval
       THEN /\ old_ua' = ua0
            /\ current_user_agent' \in RotationPool(ua0)
            /\ ua_rotation_count' = 0
            /\ ua_rotation_interval' \in RotationIntervals
       ELSE /\ current_user_agent' = ua0
            /\ ua_rotation_count' = ua_rotation_count + 1
            /\ UNCHANGED <<ua_rotation_interval, old_ua>>
  /\ reqlock' = None
  /\ IF kind = "pledge" /\ session = None
       THEN \* self.session.get on None raises; _check_soundness_pledge
            \* swallows it and returns its default
            /\ pc' = [pc EXCEPT ![t] = "idle"]
            /\ result' = [result EXCEPT ![t] = "returned"]
            /\ UNCHANGED histVars
       ELSE /\ pc' = [pc EXCEPT ![t] = RespPc(kind)]
            /\ result' = [result EXCEPT ![t] = None]
            /\ Issue(kind, tnow, TRUE)

\* lines 142-157, entered holding the request lock
ThrottleCompute(t, kind, ua0) ==
  \E target \in TargetIntervals :
    LET elapsed == now - last_request_time IN
    IF elapsed < target
      THEN /\ reqlock' = t
           /\ wake' = [wake EXCEPT ![t] = now + (target - elapsed)]
           /\ pc' = [pc EXCEPT ![t] = "sleep"]
           /\ result' = [result EXCEPT ![t] = None]
           /\ current_user_agent' = ua0
           /\ UNCHANGED <<last_request_time, ua_rotation_count,
                          ua_rotation_interval, old_ua, histVars>>
      ELSE /\ ThrottlePass(t, kind, now, ua0)
           /\ UNCHANGED wake

\* a _throttle_request without line 141: it never waits for the request lock
ThrottleCall_noGate(t, kind, ua0) ==
  /\ ret' = [ret EXCEPT ![t] = kind]
  /\ ThrottleCompute(t, kind, ua0)
  /\ UNCHANGED reqq

\* line 141, reached from the caller without suspending
ThrottleCall(t, kind, ua0) ==
  /\ ret' = [ret EXCEPT ![t] = kind]
  /\ IF LockFree(reqlock, reqq)
       THEN /\ ThrottleCompute(t, kind, ua0)
            /\ UNCHANGED reqq
       ELSE /\ reqq' = Append(reqq, t)
            /\ pc' = [pc EXCEPT ![t] = "throttle_wait"]
            /\ result' = [result EXCEPT ![t] = None]
            /\ current_user_agent' = ua0
            /\ UNCHANGED <<reqlock, last_request_time, ua_rotation_count,
                           ua_rotation_interval, old_ua, histVars, wake>>

ThrottleAcquired(t) ==
  /\ pc[t] = "throttle_wait"
  /\ MayResume(reqlock, reqq, t)
  /\ reqq' = Tail(reqq)
  /\ ThrottleCompute(t, ret[t], current_user_agent)
  /\ UNCHANGED <<now, clientVars, force, caller, retry, ret, rsa_now, calls,
                 gets, relogins, buyVars, cipherVars, appVars>>

\* asyncio.sleep(delay) returns no earlier than its wake-up time
SleepDone(t) ==
  /\ pc[t] = "sleep"
  /\ now' = Max(now, wake[t])
  /\ ThrottlePass(t, ret[t], Max(now, wake[t]), current_user_agent)
  /\ wake' = [wake EXCEPT ![t] = 0]
  /\ UNCHANGED <<clientVars, reqq, force, caller, retry, ret, rsa_now,
                 calls, gets, relogins, buyVars, cipherVars, appVars>>

\* a cancelled sleep that leaves the request lock held
CancelSleep_keepsGate(t) ==
  /\ pc[t] = "sleep"
  /\ lock' = IF lock = t THEN None ELSE lock
  /\ pc' = [pc EXCEPT ![t] = "idle"]
  /\ result' = [result EXCEPT ![t] = "cancelled"]
  /\ wake' = [wake EXCEPT ![t] = 0]
  /\ UNCHANGED <<now, session, logged_in, lockq, consecutive_failures,
                 last_login, last_get, circuit_open_time, cached_rsa_key,
                 rsa_key_time,
                 current_user_agent, throttleVars, force, caller, retry, ret,
                 rsa_now, calls, gets, relogins, histVars, buyVars,
                 cipherVars, appVars>>

\* lines 154-157: the task is cancelled while it sleeps.  CancelledError is
\* raised at the await and raised again by the except clause; it leaves
\* `async with self._request_lock`, and every `async with self._lock` and
\* `except Exception` of the callers, on its way out of the task
CancelSleep(t) ==
  /\ pc[t] = "sleep"
  /\ reqlock' = None
  /\ lock' = IF lock = t THEN None ELSE lock
  /\ pc' = [pc EXCEPT ![t] = "idle"]
  /\ result' = [result EXCEPT ![t] = "cancelled"]
  /\ wake' = [wake EXCEPT ![t] = 0]
  /\ UNCHANGED <<now, session, logged_in, lockq, consecutive_failures,
                 last_login, last_get, circuit_open_time, cached_rsa_key,
                 rsa_key_time,
                 current_user_agent, reqq, last_request_time,
                 ua_rotation_count, ua_rotation_interval, old_ua, force,
                 caller, retry, ret, rsa_now, calls, gets, relogins, histVars,
                 buyVars, cipherVars, appVars>>

(***************************************************************************)
(* async_login.  c is the caller ("top" or "gwl"), q the waiters of _lock. *)
(***************************************************************************)
\* leaving `async with self._lock` and returning (or raising) to the caller
LoginExit(t, how, q, c) ==
  /\ lock' = None
  /\ IF c = "gwl" /\ how = "returned"
       THEN \* line 414: the recursive call with retry - 1, which starts
            \* by acquiring _lock (line 407)
            /\ lockq' = Append(q, t)
            /\ pc' = [pc EXCEPT ![t] = "gwl_wait_lock"]
            /\ retry' = [retry EXCEPT ![t] = retry[t] - 1]
            /\ result' = [result EXCEPT ![t] = None]
       ELSE \* back at the top, or raised inside the except clause of
            \* async_get_with_login and so out of it
            /\ lockq' = q
            /\ pc' = [pc EXCEPT ![t] = "idle"]
            /\ result' = [result EXCEPT ![t] = how]
            /\ UNCHANGED retry

\* an async_login without the second look at the flag (lines 268-269)
LoginBody_noRecheck(t, f, q, c) ==
  /\ lock' = t
  /\ lockq' = q
  /\ session' = "open"
  /\ current_user_agent' \in CreateSession
  /\ Issue("warmup", now, FALSE)
  /\ pc' = [pc EXCEPT ![t] = "warmup_resp"]
  /\ result' = [result EXCEPT ![t] = None]
  /\ UNCHANGED retry

\* lines 268-278 and _warmup_session up to its GET, entered holding _lock
LoginBody(t, f, q, c) ==
  IF logged_in /\ ~f
    THEN /\ LoginExit(t, "returned", q, c)
         /\ UNCHANGED <<session, current_user_agent, histVars>>
    ELSE /\ lock' = t
         /\ lockq' = q
         /\ session' = "open"
         /\ current_user_agent' \in CreateSession
         /\ Issue("warmup", now, FALSE)
         /\ pc' = [pc EXCEPT ![t] = "warmup_resp"]
         /\ result' = [result EXCEPT ![t] = None]
         /\ UNCHANGED retry

\* an async_login that never looks at the flag (lines 264-265, 268-269)
LoginCall_alwaysLogin(t, f, c) ==
  /\ force' = [force EXCEPT ![t] = f]
  /\ caller' = [caller EXCEPT ![t] = c]
  /\ IF LockFree(lock, lockq)
       THEN LoginBody_noRecheck(t, f, lockq, c)
       ELSE /\ lockq' = Append(lockq, t)
            /\ pc' = [pc EXCEPT ![t] = "login_wait_lock"]
            /\ result' = [result EXCEPT ![t] = None]
            /\ UNCHANGED <<lock, session, current_user_agent, histVars,
                           retry>>

\* lines 264-267
LoginCall(t, f, c) ==
  /\ force' = [force EXCEPT ![t] = f]
  /\ caller' = [caller EXCEPT ![t] = c]
  /\ IF logged_in /\ ~f
       THEN /\ pc' = [pc EXCEPT ![t] = "idle"]
            /\ result' = [result EXCEPT ![t] = "returned"]
            /\ UNCHANGED <<lock, lockq, session, current_user_agent, histVars,
                           retry>>
       ELSE IF LockFree(lock, lockq)
         THEN LoginBody(t, f, lockq, c)
         ELSE /\ lockq' = Append(lockq, t)
              /\ pc' = [pc EXCEPT ![t] = "login_wait_lock"]
              /\ result' = [result EXCEPT ![t] = None]
              /\ UNCHANGED <<lock, session, current_user_agent, histVars,
                             retry>>

StartLogin(t, f) ==
  /\ pc[t] = "idle"
  /\ calls < MaxCalls
  /\ calls' = calls + 1
  /\ gets' = [gets EXCEPT ![t] = 0]
  /\ relogins' = [relogins EXCEPT ![t] = 0]
  /\ LoginCall(t, f, "top")
  /\ UNCHANGED <<now, logged_in, consecutive_failures, last_login, last_get,
                 circuit_open_time, cached_rsa_key, rsa_key_time, throttleVars, ret, wake,
                 rsa_now, buyVars, cipherVars, appVars>>

LoginAcquired(t) ==
  /\ pc[t] = "login_wait_lock"
  /\ MayResume(lock, lockq, t)
  /\ LoginBody(t, force[t], Tail(lockq), caller[t])
  /\ UNCHANGED <<now, logged_in, consecutive_failures, last_login, last_get,
                 circuit_open_time, cached_rsa_key, rsa_key_time, throttleVars, force, caller,
                 ret, wake, rsa_now, calls, gets, relogins, buyVars,
                 cipherVars, appVars>>

\* a _get_rsa_key whose cache test lets the key live one tick longer
WarmupDone_lateExpiry(t) ==
  /\ pc[t] = "warmup_resp"
  /\ IF cached_rsa_key # None /\ (now - rsa_key_time) <= _rsa_key_ttl
       THEN /\ pc' = [pc EXCEPT ![t] = "encrypt"]
            /\ UNCHANGED <<throttleVars, current_user_agent, ret, wake,
                           histVars, result, rsa_now>>
       ELSE /\ rsa_now' = [rsa_now EXCEPT ![t] = now]
            /\ ThrottleCall(t, "key", current_user_agent)
  /\ UNCHANGED <<now, clientVars, force, caller, retry, calls, gets, relogins,
                 buyVars, cipherVars, appVars>>

\* _warmup_session's result is ignored; _get_rsa_key lines 206-212
WarmupDone(t) ==
  /\ pc[t] = "warmup_resp"
  /\ IF cached_rsa_key # None /\ (now - rsa_key_time) < _rsa_key_ttl
       THEN /\ pc' = [pc EXCEPT ![t] = "encrypt"]
            /\ UNCHANGED <<throttleVars, current_user_agent, ret, wake,
                           histVars, result, rsa_now>>
       ELSE /\ rsa_now' = [rsa_now EXCEPT ![t] = now]
            /\ ThrottleCall(t, "key", current_user_agent)
  /\ UNCHANGED <<now, clientVars, force, caller, retry, calls, gets, relogins,
                 buyVars, cipherVars, appVars>>

\* what the key endpoint may answer
KeyResponses == {"good", "bad", "nodata", "nofields", "exception"}

\* _get_rsa_key lines 220-240
KeyResp(t) ==
  /\ pc[t] = "key_resp"
  /\ \E r \in KeyResponses :
       IF r \in {"good", "bad"}
         THEN /\ cached_rsa_key' = r
              /\ rsa_key_time' = rsa_now[t]
              /\ pc' = [pc EXCEPT ![t] = "encrypt"]
              /\ UNCHANGED <<lock, lockq, result, retry>>
         ELSE /\ LoginExit(t, "DhLotteryError", lockq, caller[t])
              /\ UNCHANGED <<cached_rsa_key, rsa_key_time>>
  /\ rsa_now' = [rsa_now EXCEPT ![t] = 0]
  /\ UNCHANGED <<now, session, logged_in, consecutive_failures, last_login, last_get,
                 circuit_open_time, current_user_agent, throttleVars, force,
                 caller, ret, wake, calls, gets, relogins, histVars,
                 buyVars, cipherVars, appVars>>

\* _rsa_encrypt (twice, in a worker thread), lines 283-292
EncryptDone(t) ==
  /\ pc[t] = "encrypt"
  /\ IF cached_rsa_key = "good"
       THEN /\ ThrottleCall(t, "login", current_user_agent)
            /\ UNCHANGED <<lock, lockq, retry>>
       ELSE /\ LoginExit(t, "DhLotteryError", lockq, caller[t])
            /\ UNCHANGED <<throttleVars, current_user_agent, ret, wake,
                           histVars>>
  /\ UNCHANGED <<now, session, logged_in, consecutive_failures, last_login, last_get,
                 circuit_open_time, cached_rsa_key, rsa_key_time, force,
                 caller, rsa_now, calls, gets, relogins, buyVars, cipherVars, appVars>>

\* what the login endpoint may answer: a response, or a transport failure
LoginResponses ==
  [kind : {"response"}, status : {200, 302, 500},
   location : BOOLEAN, url : BOOLEAN]
  \cup {[kind |-> "exception", status |-> 0, location |-> FALSE, url |-> FALSE]}

\* a success test that accepts redirects only
LoginSucceeds_redirectOnly(r) ==
  /\ r.kind = "response"
  /\ r.status = 302
  /\ (r.location \/ r.url)

\* lines 315-320: the success test
LoginSucceeds(r) ==
  /\ r.kind = "response"
  /\ r.status \in {200, 302}
  /\ (r.location \/ r.url)

\* an async_login whose success forgives one failure only (not line 322)
LoginResp_forgivesOne(t) ==
  /\ pc[t] = "login_resp"
  /\ \E r \in LoginResponses :
       /\ last_login' = [task |-> t, resp |-> r,
                         failures |-> consecutive_failures]
       /\ IF LoginSucceeds(r)
         THEN /\ logged_in' = TRUE
              /\ consecutive_failures' = Max(0, consecutive_failures - 1)
              /\ LoginExit(t, "returned", lockq, caller[t])
         ELSE /\ consecutive_failures' = consecutive_failures + 1
              /\ logged_in' = FALSE
              /\ LoginExit(t, IF r.kind = "response"
                                THEN "DhLotteryLoginError"
                                ELSE "DhLotteryError", lockq, caller[t])
  /\ UNCHANGED <<now, session, circuit_open_time, cached_rsa_key,
                 rsa_key_time, last_get, current_user_agent, throttleVars,
                 force, caller, ret, wake, rsa_now, calls, gets, relogins,
                 histVars, buyVars, cipherVars, appVars>>

\* lines 306-339
LoginResp(t) ==
  /\ pc[t] = "login_resp"
  /\ \E r \in LoginResponses :
       /\ last_login' = [task |-> t, resp |-> r,
                         failures |-> consecutive_failures]
       /\ IF LoginSucceeds(r)
         THEN /\ logged_in' = TRUE
              /\ consecutive_failures' = 0
              /\ LoginExit(t, "returned", lockq, caller[t])
         ELSE /\ consecutive_failures' = consecutive_failures + 1
              /\ logged_in' = FALSE
              /\ LoginExit(t, IF r.kind = "response"
                                THEN "DhLotteryLoginError"
                                ELSE "DhLotteryError", lockq, caller[t])
  /\ UNCHANGED <<now, session, circuit_open_time, cached_rsa_key,
                 rsa_key_time, last_get, current_user_agent, throttleVars,
                 force, caller, ret, wake, rsa_now, calls, gets, relogins,
                 histVars, buyVars, cipherVars, appVars>>

(***************************************************************************)
(* async_get_with_login / async_get                                        *)
(***************************************************************************)
\* async_get lines 383-386, entered holding _lock; g GETs were made before
GetBody(t, g, q) ==
  /\ lock' = t
  /\ lockq' = q
  /\ session' = "open"
  /\ gets' = [gets EXCEPT ![t] = g + 1]
  /\ \E ua0 \in CreateSession : ThrottleCall(t, "get", ua0)

\* line 407
StartGet(t, r) ==
  /\ pc[t] = "idle"
  /\ calls < MaxCalls
  /\ retry' = [retry EXCEPT ![t] = r]
  /\ calls' = calls + 1
  /\ relogins' = [relogins EXCEPT ![t] = 0]
  /\ IF LockFree(lock, lockq)
       THEN GetBody(t, 0, lockq)
       ELSE /\ lockq' = Append(lockq, t)
            /\ pc' = [pc EXCEPT ![t] = "gwl_wait_lock"]
            /\ result' = [result EXCEPT ![t] = None]
            /\ gets' = [gets EXCEPT ![t] = 0]
            /\ UNCHANGED <<lock, session, current_user_agent, throttleVars,
                           ret, wake, histVars>>
  /\ UNCHANGED <<now, logged_in, consecutive_failures, last_login, last_get,
                 circuit_open_time,
                 cached_rsa_key, rsa_key_time, force, caller, rsa_now,
                 buyVars, cipherVars, appVars>>

GwlAcquired(t) ==
  /\ pc[t] = "gwl_wait_lock"
  /\ MayResume(lock, lockq, t)
  /\ GetBody(t, gets[t], Tail(lockq))
  /\ UNCHANGED <<now, logged_in, consecutive_failures, last_login, last_get,
                 circuit_open_time,
                 cached_rsa_key, rsa_key_time, force, caller, retry, rsa_now,
                 calls, relogins, buyVars, cipherVars, appVars>>

\* what a read endpoint may answer
GetResponses ==
  {"ok", "unparseable", "non200", "non200_nodata", "nodata", "exception"}

\* handle_response_json lines 368-379: the error it raises, or None
HandleResponseJson(r) ==
  CASE r = "unparseable" -> "DhAPIError"
    [] r \in {"non200", "non200_nodata"} -> "DhAPIError"
    [] r = "nodata" -> "DhLotteryError"
    [] OTHER -> None

\* an async_get that reports a transport failure as an API error
AsyncGetError_transportAsApi(r) ==
  IF r = "exception" THEN "DhAPIError" ELSE HandleResponseJson(r)

\* async_get lines 388-398: the error async_get raises, or None
AsyncGetError(r) ==
  IF r = "exception" THEN "DhLotteryError" ELSE HandleResponseJson(r)

\* an async_get_with_login that forces a relogin on every API error (not
\* line 411)
GetResp_alwaysRetries(t) ==
  /\ pc[t] = "get_resp"
  /\ \E r \in GetResponses :
       LET err == AsyncGetError(r) IN
       /\ last_get' = r
       /\ IF err = "DhAPIError"
         THEN /\ relogins' = [relogins EXCEPT ![t] = relogins[t] + 1]
              /\ LoginCall(t, TRUE, "gwl")
         ELSE /\ lock' = None
              /\ pc' = [pc EXCEPT ![t] = "idle"]
              /\ result' = [result EXCEPT ![t] =
                   IF err = None THEN "returned" ELSE err]
              /\ UNCHANGED <<force, caller, relogins, lockq, session,
                             current_user_agent, histVars, retry>>
  /\ UNCHANGED <<now, logged_in, consecutive_failures, last_login,
                 circuit_open_time, cached_rsa_key, rsa_key_time,
                 throttleVars, ret, wake, rsa_now, calls, gets, buyVars,
                 cipherVars, appVars>>

\* lines 408-419, on the GET's answer
GetResp(t) ==
  /\ pc[t] = "get_resp"
  /\ \E r \in GetResponses :
       LET err == AsyncGetError(r) IN
       /\ last_get' = r
       /\ IF err = "DhAPIError" /\ retry[t] > 0
         THEN \* line 413, still inside `async with self._lock`
              /\ relogins' = [relogins EXCEPT ![t] = relogins[t] + 1]
              /\ LoginCall(t, TRUE, "gwl")
         ELSE /\ lock' = None
              /\ pc' = [pc EXCEPT ![t] = "idle"]
              /\ result' = [result EXCEPT ![t] =
                   IF err = None THEN "returned"
                   ELSE IF err = "DhAPIError" THEN "DhLotteryLoginError"
                   ELSE err]
              /\ UNCHANGED <<force, caller, relogins, lockq, session,
                             current_user_agent, histVars, retry>>
  /\ UNCHANGED <<now, logged_in, consecutive_failures, last_login,
                 circuit_open_time, cached_rsa_key, rsa_key_time, throttleVars, ret, wake,
                 rsa_now, calls, gets, buyVars, cipherVars, appVars>>

(***************************************************************************)
(* _check_soundness_pledge: a throttled GET outside _lock                  *)
(***************************************************************************)
StartPledge(t) ==
  /\ pc[t] = "idle"
  /\ calls < MaxCalls
  /\ calls' = calls + 1
  /\ gets' = [gets EXCEPT ![t] = 0]
  /\ relogins' = [relogins EXCEPT ![t] = 0]
  /\ ThrottleCall(t, "pledge", current_user_agent)
  /\ UNCHANGED <<now, clientVars, force, caller, retry, rsa_now, buyVars,
                 cipherVars, appVars>>

\* lines 351-363: every answer, and every failure, returns a dict
PledgeResp(t) ==
  /\ pc[t] = "pledge_resp"
  /\ pc' = [pc EXCEPT ![t] = "idle"]
  /\ result' = [result EXCEPT ![t] = "returned"]
  /\ UNCHANGED <<now, clientVars, current_user_agent, throttleVars, force,
                 caller, retry, ret, wake, rsa_now, calls, gets, relogins,
                 histVars, buyVars, cipherVars, appVars>>

(***************************************************************************)
(* The clock                                                               *)
(***************************************************************************)
Tick ==
  /\ now < FirstReading + MaxTime
  /\ now' = now + 1
  /\ UNCHANGED <<clientVars, current_user_agent, throttleVars, taskVars,
                 histVars, buyVars, cipherVars, appVars>>

(***************************************************************************)
(* DhPension720: the sub-service session and the purchase protocol         *)
(***************************************************************************)
\* the price of one ticket (amount = sale_cnt * 1000)
UnitPrice == 1000

\* k.upper().startswith("JSESSIONID"), on the cookie names the model uses
IsSessionName(k) == k \in {"JSESSIONID", "jsessionid", "JSESSIONID_EL"}

MinOf(I) == CHOOSE i \in I : \A j \in I : i <= j

\* lines 155-162 / 167-171: the first cookie whose name matches, or None
FirstSessionCookie(cs) ==
  LET I == {i \in 1..Len(cs) : IsSessionName(cs[i].k)}
  IN IF I = {} THEN None ELSE cs[MinOf(I)].v

\* lines 164-173: the cookies of the redirect history, in order
FirstInHistory(hs) ==
  LET I == {i \in 1..Len(hs) : FirstSessionCookie(hs[i]) # None}
  IN IF I = {} THEN None ELSE FirstSessionCookie(hs[MinOf(I)])

\* a header scan that wants the cookie's name spelled exactly
FirstInHeaders_exactName(hdrs) ==
  LET I == {i \in 1..Len(hdrs) :
              hdrs[i].eq /\ hdrs[i].name = "JSESSIONID" /\ hdrs[i].val # ""}
  IN IF I = {} THEN None ELSE hdrs[MinOf(I)].val

\* lines 175-197: the raw Set-Cookie lines; eq says the first part has an "="
FirstInHeaders(hdrs) ==
  LET I == {i \in 1..Len(hdrs) :
              hdrs[i].eq /\ IsSessionName(hdrs[i].name) /\ hdrs[i].val # ""}
  IN IF I = {} THEN None ELSE hdrs[MinOf(I)].val

\* _pick_jsessionid_from_response, lines 148-199
PickJsessionid(r) ==
  IF r.cookies # <<>> /\ FirstSessionCookie(r.cookies) # None
    THEN FirstSessionCookie(r.cookies)
  ELSE IF FirstInHistory(r.history) # None
    THEN FirstInHistory(r.history)
  ELSE FirstInHeaders(r.headers)

\* lines 256-261: the cookie store filtered for the sub-domain
JarForSubdomain(jar) ==
  LET M == {c \in jar : c.domain = "el" /\ c.key = "JSESSIONID"}
  IN IF M = {} THEN {None} ELSE {c.value : c \in M}

\* lines 263-268: any cookie of the store with the exact key
JarScan(jar) ==
  LET M == {c \in jar : c.key = "JSESSIONID"}
  IN IF M = {} THEN {None} ELSE {c.value : c \in M}

\* what a visit of the sub-service may answer
CookieLists ==
  { <<>>,
    <<[k |-> "WMONID", v |-> "w1"]>>,
    <<[k |-> "WMONID", v |-> "w1"], [k |-> "JSESSIONID", v |-> "S1"]>>,
    <<[k |-> "JSESSIONID", v |-> ""]>> }

Histories == { <<>>, << <<[k |-> "jsessionid", v |-> "S2"]>> >> }

HeaderLists ==
  { <<>>,
    <<[name |-> "Secure", val |-> "", eq |-> FALSE],
      [name |-> "JSESSIONID", val |-> "", eq |-> TRUE],
      [name |-> "jsessionid", val |-> "S2", eq |-> TRUE]>> }

VisitResponses ==
  [kind : {"response"}, cookies : CookieLists, history : Histories,
   headers : HeaderLists]
  \cup {[kind |-> "exception", cookies |-> <<>>, history |-> <<>>,
         headers |-> <<>>]}

\* what the cookie store may hold after the visits
Jars ==
  { {},
    {[key |-> "JSESSIONID", value |-> "S1", domain |-> "el"]},
    {[key |-> "JSESSIONID", value |-> "S2", domain |-> "www"]},
    {[key |-> "WMONID", value |-> "w1", domain |-> "el"]} }

\* roundRemainTime.do answers
RoundInfos ==
  {[got |-> TRUE, keys |-> ks, round |-> r, remainTime |-> m] :
     ks \in SUBSET {"round", "remainTime"}, r \in {0, 1234},
     m \in {-1, 0, 500}}

RoundResponses ==
  {[kind |-> "ok", p |-> ri] :
     ri \in {x \in RoundInfos : /\ ("round" \in x.keys \/ x.round = 0)
                                /\ ("remainTime" \in x.keys \/ x.remainTime = 0)}}
  \cup {[kind |-> "exception", p |-> [got |-> FALSE, keys |-> {}]]}

NoDict == [got |-> FALSE, keys |-> {}]

\* the decrypted and parsed answers of the three encrypted POSTs
P1s ==
  {[got |-> TRUE, keys |-> ks, orderNo |-> o, orderDate |-> "20261105"] :
     ks \in {{"orderNo", "orderDate"}, {"orderNo"}, {"orderDate"}},
     o \in {"", "ABC123"}}

P2s ==
  {[got |-> TRUE, keys |-> ks \cup {"saleTicket", "failTicket"},
    resultCode |-> c, saleCnt |-> sc, failCnt |-> fc,
    saleTicket |-> "T1", failTicket |-> ft] :
     ks \in SUBSET {"resultCode", "saleCnt", "failCnt"},
     c \in {"100", "110", "120", "999"},
     sc \in {<<"1">>, <<"3">>, <<>>},
     fc \in {<<"0">>, <<"2">>, <<"x">>},
     ft \in {"", "T4,T5"}}

P3s ==
  {[got |-> TRUE, keys |-> ks, deposit |-> d] :
     ks \in SUBSET {"deposit"}, d \in {<<"5", "0", "0", "0">>, <<"x">>}}

\* a key a dict lacks has one representation
Canonical(d, k, v) == k \in d.keys \/ d[k] = v

\* an encrypted POST's answer: a transport failure, a JSON object without
\* "q", an envelope _decrypt rejects, or a form _parse reads
PhaseResponses(Ps) ==
  {[kind |-> "ok", p |-> x] : x \in Ps}
  \cup {[kind |-> k, p |-> NoDict] : k \in {"exception", "noq", "undecryptable"}}

P1Responses ==
  PhaseResponses({x \in P1s : Canonical(x, "orderNo", "")})

P2Responses ==
  PhaseResponses({x \in P2s : /\ Canonical(x, "resultCode", "100")
                              /\ Canonical(x, "saleCnt", <<"1">>)
                              /\ Canonical(x, "failCnt", <<"0">>)})

P3Responses ==
  PhaseResponses({x \in P3s : Canonical(x, "deposit", <<"x">>)})

NoOutcome ==
  [kind |-> "none", exc |-> "", detail |-> "", round_no |-> 0,
   ticket_count |-> 0, tickets |-> "", fail_count |-> 0, fail_tickets |-> "",
   deposit |-> 0, amount |-> 0]

Raised(e, d) == [NoOutcome EXCEPT !.kind = "raised", !.exc = e, !.detail = d]

\* DhPension720BuyData, lines 471-479
BuyData(rnd, sale_cnt, sale_ticket, fail_cnt, fail_ticket, dep) ==
  [kind |-> "returned", exc |-> "", detail |-> "", round_no |-> rnd,
   ticket_count |-> sale_cnt, tickets |-> sale_ticket, fail_count |-> fail_cnt,
   fail_tickets |-> fail_ticket, deposit |-> dep,
   amount |-> sale_cnt * UnitPrice]

\* the round check with the closing instant itself still on sale
CheckRound_closedLate(ri) ==
  IF DictGet(ri, "round", 0) = 0 THEN "round info unavailable"
  ELSE IF DictGet(ri, "remainTime", 0) < 0 THEN "sales closed"
  ELSE None

\* lines 346-351: why the round cannot be bought, or None
CheckRound(ri) ==
  IF DictGet(ri, "round", 0) = 0 THEN "round info unavailable"
  ELSE IF DictGet(ri, "remainTime", 0) <= 0 THEN "sales closed"
  ELSE None

\* the interpretation with the failed count forced to 0
InterpretPurchase_noFailures(p) ==
  LET result_code == DictGet(p, "resultCode", "")
      sale == PyInt(DictGet(p, "saleCnt", <<"0">>))
      fail == PyInt(DictGet(p, "failCnt", <<"0">>))
      fail_ticket == DictGet(p, "failTicket", "")
      exc == IF ~sale.ok \/ ~fail.ok THEN "ValueError"
             ELSE IF result_code \notin {"100", "110"}
               THEN "DhPension720PurchaseError"
             ELSE None
  IN [exc |-> exc,
      detail |-> IF exc = "ValueError" THEN "invalid literal for int()"
                 ELSE IF result_code = "120" THEN fail_ticket
                 ELSE result_code,
      sale_cnt |-> sale.val,
      sale_ticket |-> DictGet(p, "saleTicket", ""),
      fail_cnt |-> 0,
      fail_ticket |-> fail_ticket]

\* lines 434-455: the counts, and the exception raised (None when none)
InterpretPurchase(p) ==
  LET result_code == DictGet(p, "resultCode", "")
      sale == PyInt(DictGet(p, "saleCnt", <<"0">>))
      fail == PyInt(DictGet(p, "failCnt", <<"0">>))
      fail_ticket == DictGet(p, "failTicket", "")
      exc == IF ~sale.ok \/ ~fail.ok THEN "ValueError"
             ELSE IF result_code \notin {"100", "110"}
               THEN "DhPension720PurchaseError"
             ELSE None
  IN [exc |-> exc,
      detail |-> IF exc = "ValueError" THEN "invalid literal for int()"
                 ELSE IF result_code = "120" THEN fail_ticket
                 ELSE result_code,
      sale_cnt |-> sale.val,
      sale_ticket |-> DictGet(p, "saleTicket", ""),
      fail_cnt |-> fail.val,
      fail_ticket |-> fail_ticket]

\* lines 458-469: Phase 3, every failure swallowed
VerifyDeposit(r) ==
  LET d == PyInt(DictGet(r.p, "deposit", <<"0">>))
  IN [exc |-> None,
      deposit |-> IF r.kind = "ok" /\ d.ok THEN d.val ELSE 0]

BuyFrame ==
  UNCHANGED <<now, clientVars, current_user_agent, throttleVars, taskVars,
              cipherVars, appVars, answers>>

\* async_get_round_info, lines 301-303, called at line 345
RoundQuery ==
  /\ bpc' = "round_resp"
  /\ Issue("roundRemainTime", now, FALSE)

\* async_get_balance, lines 310-312: the GET that follows _ensure_session
BalanceQuery ==
  /\ bpc' = "balance_resp"
  /\ Issue("selectCrntEntrsAmt", now, FALSE)

\* what the caller of _ensure_session does next; a balance query has no
\* groups
AfterSession(g) == IF g = <<>> THEN BalanceQuery ELSE RoundQuery

\* an encrypted POST that is sent once more
Post_twice(endpoint, resp_pc) ==
  /\ posts' = Append(Append(posts, endpoint), endpoint)
  /\ bpc' = resp_pc
  /\ Issue(endpoint, now, FALSE)

\* an encrypted POST, data = {"q": self._enc(...)}
Post(endpoint, resp_pc) ==
  /\ posts' = Append(posts, endpoint)
  /\ bpc' = resp_pc
  /\ Issue(endpoint, now, FALSE)

\* _async_buy raises: the invocation is over
BuyRaise(e, d) ==
  /\ bpc' = "done"
  /\ outcome' = Raised(e, d)

GroupChoices == {<<1>>, <<1, 2, 3, 4, 5>>}

\* an _ensure_session without lines 145-146: it visits the sub-service even
\* with an identifier cached
StartBuy_alwaysVisits(g) ==
  /\ bpc \in {"idle", "done"}
  /\ buys < MaxBuys
  /\ buys' = buys + 1
  /\ groups' = g
  /\ round_info' = NoDict
  /\ p1' = NoDict
  /\ p2' = NoDict
  /\ phase3' = [kind |-> "none", p |-> NoDict]
  /\ posts' = <<>>
  /\ IF session = None
       THEN /\ BuyRaise("AttributeError", "")
            /\ UNCHANGED histVars
       ELSE /\ bpc' = "root_resp"
            /\ outcome' = NoOutcome
            /\ Issue("el_root", now, FALSE)
  /\ UNCHANGED jsessionid
  /\ BuyFrame

\* _ensure_session lines 145-220 and the caller's request when the
\* identifier is cached; with self.client.session None the request raises
\* (in _ensure_session the failure of (A) is swallowed, that of (B) is not)
SessionThen(g) ==
  IF session = None
    THEN /\ BuyRaise("AttributeError", "")
         /\ UNCHANGED histVars
    ELSE IF Truthy(jsessionid)
      THEN AfterSession(g) /\ outcome' = NoOutcome
      ELSE /\ bpc' = "root_resp"
           /\ outcome' = NoOutcome
           /\ Issue("el_root", now, FALSE)

\* _async_buy line 341 and _ensure_session lines 145-220
StartBuy(g) ==
  /\ bpc \in {"idle", "done"}
  /\ buys < MaxBuys
  /\ buys' = buys + 1
  /\ groups' = g
  /\ round_info' = NoDict
  /\ p1' = NoDict
  /\ p2' = NoDict
  /\ phase3' = [kind |-> "none", p |-> NoDict]
  /\ posts' = <<>>
  /\ SessionThen(g)
  /\ UNCHANGED jsessionid
  /\ BuyFrame

\* lines 220-243: the root visit is answered r, then the game page visit
RootAnswer(r) ==
  /\ bpc = "root_resp"
  /\ LET sid == IF r.kind = "exception" THEN jsessionid
                 ELSE PickJsessionid(r)
     IN /\ jsessionid' = sid
        /\ IF Truthy(sid)
             THEN AfterSession(groups)
             ELSE /\ bpc' = "game_resp"
                  /\ Issue("game.jsp", now, FALSE)
  /\ UNCHANGED <<buys, groups, round_info, p1, p2, phase3, outcome, posts>>
  /\ BuyFrame

RootResp == \E r \in VisitResponses : RootAnswer(r)

\* lines 243-281, then line 345: the game page visit is answered r and the
\* cookie store holds jar
GameAnswer(r, jar) ==
  /\ bpc = "game_resp"
  /\ IF r.kind = "exception"
       THEN /\ BuyRaise("ClientError", "")
            /\ UNCHANGED <<jsessionid, histVars>>
       ELSE \E c \in JarForSubdomain(jar), d \in JarScan(jar) :
              LET b == PickJsessionid(r)
                  cc == IF Truthy(b) THEN b ELSE IF c # None THEN c ELSE b
                  dd == IF Truthy(cc) THEN cc ELSE IF d # None THEN d ELSE cc
              IN /\ jsessionid' = dd
                 /\ IF Truthy(dd)
                      THEN AfterSession(groups) /\ UNCHANGED outcome
                      ELSE /\ BuyRaise("DhPension720Error", "JSESSIONID")
                           /\ UNCHANGED histVars
  /\ UNCHANGED <<buys, groups, round_info, p1, p2, phase3, posts>>
  /\ BuyFrame

GameResp == \E r \in VisitResponses, jar \in Jars : GameAnswer(r, jar)

\* lines 345-373
RoundResp ==
  /\ bpc = "round_resp"
  /\ \E r \in RoundResponses :
       /\ round_info' = r.p
       /\ IF r.kind = "exception"
            THEN BuyRaise("ClientError", "") /\ UNCHANGED <<histVars, posts>>
            ELSE IF CheckRound(r.p) # None
              THEN /\ BuyRaise("DhPension720PurchaseError", CheckRound(r.p))
                   /\ UNCHANGED <<histVars, posts>>
              ELSE Post("makeOrderNo", "order_resp") /\ UNCHANGED outcome
  /\ UNCHANGED <<jsessionid, buys, groups, p1, p2, phase3>>
  /\ BuyFrame

\* an order creation that goes on without an order number (not lines
\* 379-381)
OrderResp_ignoresOrderNo ==
  /\ bpc = "order_resp"
  /\ \E r \in P1Responses :
       /\ p1' = r.p
       /\ IF r.kind = "exception"
            THEN BuyRaise("ClientError", "") /\ UNCHANGED <<histVars, posts>>
          ELSE IF r.kind = "noq"
            THEN /\ BuyRaise("DhPension720PurchaseError", "makeOrderNo")
                 /\ UNCHANGED <<histVars, posts>>
          ELSE IF r.kind = "undecryptable"
            THEN BuyRaise("ValueError", "") /\ UNCHANGED <<histVars, posts>>
          ELSE Post("connPro", "purchase_resp") /\ UNCHANGED outcome
  /\ UNCHANGED <<jsessionid, buys, groups, round_info, p2, phase3>>
  /\ BuyFrame

\* lines 374-429
OrderResp ==
  /\ bpc = "order_resp"
  /\ \E r \in P1Responses :
       /\ p1' = r.p
       /\ IF r.kind = "exception"
            THEN BuyRaise("ClientError", "") /\ UNCHANGED <<histVars, posts>>
          ELSE IF r.kind = "noq"
            THEN /\ BuyRaise("DhPension720PurchaseError", "makeOrderNo")
                 /\ UNCHANGED <<histVars, posts>>
          ELSE IF r.kind = "undecryptable"
            THEN BuyRaise("ValueError", "") /\ UNCHANGED <<histVars, posts>>
          ELSE IF DictGet(r.p, "orderNo", "") = ""
            THEN /\ BuyRaise("DhPension720PurchaseError", "orderNo")
                 /\ UNCHANGED <<histVars, posts>>
          ELSE Post("connPro", "purchase_resp") /\ UNCHANGED outcome
  /\ UNCHANGED <<jsessionid, buys, groups, round_info, p2, phase3>>
  /\ BuyFrame

\* lines 430-463
PurchaseResp ==
  /\ bpc = "purchase_resp"
  /\ \E r \in P2Responses :
       /\ p2' = r.p
       /\ IF r.kind = "exception"
            THEN BuyRaise("ClientError", "") /\ UNCHANGED <<histVars, posts>>
          ELSE IF r.kind = "noq"
            THEN /\ BuyRaise("DhPension720PurchaseError", "connPro")
                 /\ UNCHANGED <<histVars, posts>>
          ELSE IF r.kind = "undecryptable"
            THEN BuyRaise("ValueError", "") /\ UNCHANGED <<histVars, posts>>
          ELSE IF InterpretPurchase(r.p).exc # None
            THEN /\ BuyRaise(InterpretPurchase(r.p).exc,
                             InterpretPurchase(r.p).detail)
                 /\ UNCHANGED <<histVars, posts>>
          ELSE Post("checkDeposit", "verify_resp") /\ UNCHANGED outcome
  /\ UNCHANGED <<jsessionid, buys, groups, round_info, p1, phase3>>
  /\ BuyFrame

\* lines 464-479
VerifyResp ==
  /\ bpc = "verify_resp"
  /\ \E r \in P3Responses :
       LET v == VerifyDeposit(r)
           b == InterpretPurchase(p2)
       IN /\ phase3' = r
          /\ bpc' = "done"
          /\ outcome' =
               IF v.exc # None THEN Raised(v.exc, "")
               ELSE BuyData(DictGet(round_info, "round", 0), b.sale_cnt,
                            b.sale_ticket, b.fail_cnt, b.fail_ticket,
                            v.deposit)
  /\ UNCHANGED <<jsessionid, buys, groups, round_info, p1, p2, posts, histVars>>
  /\ BuyFrame

(***************************************************************************)
(* The field cipher: _encrypt and _decrypt.  Text is a sequence of         *)
(* one-character strings, bytes are numbers 0..255, a plaintext is a       *)
(* sequence of code points.  A failing call is [ok |-> FALSE].             *)
(***************************************************************************)
\* PKCS7(128) and the AES block, in bytes
BlockSize == 16
\* os.urandom(32)
SaltLen == 32
\* os.urandom(16)
IvLen == 16
\* jsessionid[:32]
PassLen == 32
\* PBKDF2HMAC(length=16)
KeyLen == 16

Min(a, b) == IF a <= b THEN a ELSE b

Fail == [ok |-> FALSE, val |-> <<>>]
Ok(v) == [ok |-> TRUE, val |-> v]

\* the printable ASCII characters, code 32 first (code 96 by its name)
Ascii ==
  <<" ", "!", "\"", "#", "$", "%", "&", "'", "(", ")", "*", "+", ",", "-",
    ".", "/", "0", "1", "2", "3", "4", "5", "6", "7", "8", "9", ":", ";",
    "<", "=", ">", "?", "@", "A", "B", "C", "D", "E", "F", "G", "H", "I",
    "J", "K", "L", "M", "N", "O", "P", "Q", "R", "S", "T", "U", "V", "W",
    "X", "Y", "Z", "[", "\\", "]", "^", "_", "grave", "a", "b", "c", "d", "e",
    "f", "g", "h", "i", "j", "k", "l", "m", "n", "o", "p", "q", "r", "s",
    "t", "u", "v", "w", "x", "y", "z", "{", "|", "}", "~">>

IndexOf(table, c) == CHOOSE i \in 1..Len(table) : table[i] = c
Has(table, c) == \E i \in 1..Len(table) : table[i] = c

Ord(c) == 31 + IndexOf(Ascii, c)
Chr(n) == Ascii[n - 31]

\* python slices clamp to the length
Slice(s, from, to) == SubSeq(s, Min(from, Len(s) + 1), Min(to, Len(s)))

RECURSIVE SumRange(_, _, _)
SumRange(s, lo, hi) ==
  IF lo > hi THEN 0
  ELSE IF lo = hi THEN s[lo]
  ELSE LET mid == (lo + hi) \div 2
       IN SumRange(s, lo, mid) + SumRange(s, mid + 1, hi)

SumSeq(s) == SumRange(s, 1, Len(s))

\* the concatenation of the sequences ss[lo], ..., ss[hi]
RECURSIVE Concat(_, _, _)
Concat(ss, lo, hi) ==
  IF lo > hi THEN <<>>
  ELSE IF lo = hi THEN ss[lo]
  ELSE LET mid == (lo + hi) \div 2
       IN Concat(ss, lo, mid) \o Concat(ss, mid + 1, hi)

Flatten(ss) == Concat(ss, 1, Len(ss))

\* str.encode("utf-8") of ASCII text
AsciiBytes(s) == [i \in 1..Len(s) |-> Ord(s[i])]

Utf8Char(c) ==
  IF c < 128 THEN <<c>>
  ELSE IF c < 2048 THEN <<192 + (c \div 64), 128 + (c % 64)>>
  ELSE IF c < 65536
    THEN <<224 + (c \div 4096), 128 + ((c \div 64) % 64), 128 + (c % 64)>>
  ELSE <<240 + (c \div 262144), 128 + ((c \div 4096) % 64),
         128 + ((c \div 64) % 64), 128 + (c % 64)>>

\* str.encode("utf-8"), line 86
Utf8Encode(cps) == Flatten([i \in 1..Len(cps) |-> Utf8Char(cps[i])])

\* the strict decoder's step on byte b: need continuation bytes are awaited
\* for the code point cp, whose encoding has size bytes
Utf8Step(st, b) ==
  IF ~st.ok THEN st
  ELSE IF st.need = 0
    THEN IF b < 128 THEN [st EXCEPT !.out = Append(st.out, b)]
         ELSE IF b >= 194 /\ b < 224
           THEN [st EXCEPT !.need = 1, !.size = 2, !.cp = b - 192]
         ELSE IF b >= 224 /\ b < 240
           THEN [st EXCEPT !.need = 2, !.size = 3, !.cp = b - 224]
         ELSE IF b >= 240 /\ b < 245
           THEN [st EXCEPT !.need = 3, !.size = 4, !.cp = b - 240]
         ELSE [st EXCEPT !.ok = FALSE]
  ELSE IF b < 128 \/ b >= 192 THEN [st EXCEPT !.ok = FALSE]
  ELSE LET cp == (st.cp * 64) + (b - 128)
       IN IF st.need > 1 THEN [st EXCEPT !.need = st.need - 1, !.cp = cp]
          ELSE IF \/ st.size = 3 /\ (cp < 2048 \/ (cp >= 55296 /\ cp < 57344))
                  \/ st.size = 4 /\ (cp < 65536 \/ cp >= 1114112)
            THEN [st EXCEPT !.ok = FALSE]
          ELSE [st EXCEPT !.need = 0, !.cp = 0, !.out = Append(st.out, cp)]

RECURSIVE Utf8Fold(_, _, _, _)
Utf8Fold(bs, lo, hi, st) ==
  IF lo > hi THEN st
  ELSE IF lo = hi THEN Utf8Step(st, bs[lo])
  ELSE LET mid == (lo + hi) \div 2
           left == Utf8Fold(bs, lo, mid, st)
       IN IF ~left.ok THEN left ELSE Utf8Fold(bs, mid + 1, hi, left)

\* bytes.decode("utf-8"), line 115: strict
Utf8Decode(bs) ==
  LET st == Utf8Fold(bs, 1, Len(bs),
                     [ok |-> TRUE, need |-> 0, size |-> 0, cp |-> 0,
                      out |-> <<>>])
  IN IF st.ok /\ st.need = 0 THEN Ok(st.out) ELSE Fail

HexLower ==
  <<"0", "1", "2", "3", "4", "5", "6", "7", "8", "9", "a", "b", "c", "d",
    "e", "f">>
HexUpper ==
  <<"0", "1", "2", "3", "4", "5", "6", "7", "8", "9", "A", "B", "C", "D",
    "E", "F">>

IsHex(c) == Has(HexLower, c) \/ Has(HexUpper, c)
HexVal(c) ==
  IF Has(HexLower, c) THEN IndexOf(HexLower, c) - 1
  ELSE IndexOf(HexUpper, c) - 1

\* bytes.hex(), line 91
Hex(bs) ==
  Flatten([i \in 1..Len(bs) |->
             <<HexLower[(bs[i] \div 16) + 1], HexLower[(bs[i] % 16) + 1]>>])

\* bytes.fromhex(), lines 102-103: pairs of hexadecimal digits, or ValueError
FromHex(s) ==
  IF Len(s) % 2 # 0 \/ \E i \in 1..Len(s) : ~IsHex(s[i]) THEN Fail
  ELSE Ok([i \in 1..(Len(s) \div 2) |->
             (16 * HexVal(s[(2 * i) - 1])) + HexVal(s[2 * i])])

B64 ==
  <<"A", "B", "C", "D", "E", "F", "G", "H", "I", "J", "K", "L", "M", "N",
    "O", "P", "Q", "R", "S", "T", "U", "V", "W", "X", "Y", "Z", "a", "b",
    "c", "d", "e", "f", "g", "h", "i", "j", "k", "l", "m", "n", "o", "p",
    "q", "r", "s", "t", "u", "v", "w", "x", "y", "z", "0", "1", "2", "3",
    "4", "5", "6", "7", "8", "9", "+", "/">>

\* one group of up to three bytes as four characters
B64Group(bs) ==
  IF Len(bs) = 1
    THEN <<B64[(bs[1] \div 4) + 1], B64[((bs[1] % 4) * 16) + 1], "=", "=">>
  ELSE IF Len(bs) = 2
    THEN <<B64[(bs[1] \div 4) + 1],
           B64[((bs[1] % 4) * 16) + (bs[2] \div 16) + 1],
           B64[((bs[2] % 16) * 4) + 1], "=">>
  ELSE <<B64[(bs[1] \div 4) + 1],
         B64[((bs[1] % 4) * 16) + (bs[2] \div 16) + 1],
         B64[((bs[2] % 16) * 4) + (bs[3] \div 64) + 1],
         B64[(bs[3] % 64) + 1]>>

\* base64.b64encode(), line 91
B64Encode(bs) ==
  Flatten([g \in 1..((Len(bs) + 2) \div 3) |->
             B64Group(SubSeq(bs, (3 * g) - 2, Min(3 * g, Len(bs))))])

\* base64.b64decode(), line 104 (binascii.a2b_base64, not strict), on one
\* character: quad_pos data characters of the current group are read,
\* leftchar are their pending bits, pads the "=" just seen, out the bytes so
\* far.  Characters outside the alphabet are discarded and the padding that
\* completes a group ends the input.
A2bStep(st, ch) ==
  IF st.done THEN st
  ELSE IF ch = "="
    THEN IF st.quad_pos >= 2 /\ st.quad_pos + st.pads + 1 >= 4
           THEN [st EXCEPT !.done = TRUE]
         ELSE IF st.quad_pos >= 2 THEN [st EXCEPT !.pads = st.pads + 1]
         ELSE st
  ELSE IF ~Has(B64, ch) THEN st
  ELSE LET c == IndexOf(B64, ch) - 1
       IN IF st.quad_pos = 0
            THEN [st EXCEPT !.quad_pos = 1, !.leftchar = c, !.pads = 0]
          ELSE IF st.quad_pos = 1
            THEN [st EXCEPT !.quad_pos = 2, !.leftchar = c % 16, !.pads = 0,
                            !.out = Append(st.out,
                                           (st.leftchar * 4) + (c \div 16))]
          ELSE IF st.quad_pos = 2
            THEN [st EXCEPT !.quad_pos = 3, !.leftchar = c % 4, !.pads = 0,
                            !.out = Append(st.out,
                                           (st.leftchar * 16) + (c \div 4))]
          ELSE [st EXCEPT !.quad_pos = 0, !.leftchar = 0, !.pads = 0,
                          !.out = Append(st.out, (st.leftchar * 64) + c)]

RECURSIVE A2bFold(_, _, _, _)
A2bFold(s, lo, hi, st) ==
  IF lo > hi THEN st
  ELSE IF lo = hi THEN A2bStep(st, s[lo])
  ELSE LET mid == (lo + hi) \div 2
           left == A2bFold(s, lo, mid, st)
       IN IF left.done THEN left ELSE A2bFold(s, mid + 1, hi, left)

\* base64.b64decode(): binascii.Error for an incomplete last group
B64Decode(s) ==
  LET st == A2bFold(s, 1, Len(s),
                    [done |-> FALSE, quad_pos |-> 0, leftchar |-> 0,
                     pads |-> 0, out |-> <<>>])
  IN IF ~st.done /\ st.quad_pos # 0 THEN Fail ELSE Ok(st.out)

\* the characters urllib.parse.quote never encodes
IsUnreserved(c) ==
  \/ Has(B64, c) /\ c \notin {"+", "/"}
  \/ c \in {"_", ".", "-", "~"}

QuoteChar(c) ==
  IF IsUnreserved(c) THEN <<c>>
  ELSE <<"%", HexUpper[(Ord(c) \div 16) + 1], HexUpper[(Ord(c) % 16) + 1]>>

\* urllib.parse.quote(raw, safe=""), line 92, of ASCII text
Quote(s) == Flatten([i \in 1..Len(s) |-> QuoteChar(s[i])])

\* an escape %XX of a printable ASCII character starts at i
EscapeAt(s, i) ==
  /\ i >= 1
  /\ i + 2 <= Len(s)
  /\ s[i] = "%"
  /\ IsHex(s[i + 1])
  /\ IsHex(s[i + 2])
  /\ (16 * HexVal(s[i + 1])) + HexVal(s[i + 2]) \in 32..126

\* the percent-decoding that undoes Quote, of text whose escapes are ASCII
Unquote(s) ==
  Flatten([i \in 1..Len(s) |->
             IF EscapeAt(s, i)
               THEN <<Chr((16 * HexVal(s[i + 1])) + HexVal(s[i + 2]))>>
             ELSE IF EscapeAt(s, i - 1) \/ EscapeAt(s, i - 2) THEN <<>>
             ELSE <<s[i]>>])

\* PKCS7(128).padder(), lines 85-86
Pkcs7Pad(bs) ==
  LET n == BlockSize - (Len(bs) % BlockSize)
  IN bs \o [i \in 1..n |-> n]

\* PKCS7(128).unpadder(), lines 113-114: ValueError on invalid padding
Pkcs7Unpad(bs) ==
  IF Len(bs) = 0 \/ Len(bs) % BlockSize # 0 THEN Fail
  ELSE LET n == bs[Len(bs)]
       IN IF /\ n >= 1
             /\ n <= BlockSize
             /\ \A i \in (Len(bs) - n + 1)..Len(bs) : bs[i] = n
            THEN Ok(SubSeq(bs, 1, Len(bs) - n))
            ELSE Fail

RECURSIVE Xor(_, _)
Xor(a, b) ==
  IF a = 0 THEN b
  ELSE IF b = 0 THEN a
  ELSE (2 * Xor(a \div 2, b \div 2)) + (((a % 2) + (b % 2)) % 2)

XorBlock(x, y) == [i \in 1..BlockSize |-> Xor(x[i], y[i])]

\* PBKDF2HMAC(SHA256, length=16, salt, iterations=1000).derive(passphrase),
\* lines 81-83 and 106-108: a fixed function of passphrase and salt
\* (a stand-in for the hash iteration)
Pbkdf2(passphrase, salt) ==
  [i \in 1..KeyLen |->
     ((SumSeq(passphrase) * 31) + (SumSeq(salt) * i) + Len(passphrase) + i)
       % 256]

\* AES under a key: a keyed permutation of the 16-byte blocks and its
\* inverse (a stand-in for the rounds of AES-128)
AesEncryptBlock(key, b) ==
  [i \in 1..BlockSize |-> (b[(i % BlockSize) + 1] + key[i] + i) % 256]

AesDecryptBlock(key, c) ==
  [j \in 1..BlockSize |->
     LET i == ((j + BlockSize - 2) % BlockSize) + 1
     IN (c[i] + 512 - key[i] - i) % 256]

\* Cipher(AES(key), CBC(iv)).encryptor(), lines 88-89
RECURSIVE CbcEncrypt(_, _, _)
CbcEncrypt(key, prev, data) ==
  IF data = <<>> THEN <<>>
  ELSE LET c == AesEncryptBlock(key, XorBlock(SubSeq(data, 1, BlockSize), prev))
       IN c \o CbcEncrypt(key, c, SubSeq(data, BlockSize + 1, Len(data)))

RECURSIVE CbcBlocks(_, _, _)
CbcBlocks(key, prev, data) ==
  IF data = <<>> THEN <<>>
  ELSE LET c == SubSeq(data, 1, BlockSize)
       IN XorBlock(AesDecryptBlock(key, c), prev)
          \o CbcBlocks(key, c, SubSeq(data, BlockSize + 1, Len(data)))

\* Cipher(AES(key), CBC(iv)).decryptor(), lines 110-111: ValueError for an
\* IV that is not one block or data that is not whole blocks
CbcDecrypt(key, iv, data) ==
  IF Len(iv) # IvLen \/ Len(data) % BlockSize # 0 THEN Fail
  ELSE Ok(CbcBlocks(key, iv, data))

\* _encrypt, lines 77-92, with the two os.urandom draws as parameters
EncryptWith(plaintext, sid, salt, iv) ==
  LET passphrase == AsciiBytes(Slice(sid, 1, PassLen))
      key == Pbkdf2(passphrase, salt)
      padded == Pkcs7Pad(Utf8Encode(plaintext))
      ciphertext == CbcEncrypt(key, iv, padded)
      raw == Hex(salt) \o Hex(iv) \o B64Encode(ciphertext)
  IN Quote(raw)

\* _decrypt reading the key material of the first 16 characters only
_decrypt_shortPassphrase(enc_text, sid) ==
  LET passphrase == AsciiBytes(Slice(sid, 1, KeyLen))
      salt == FromHex(Slice(enc_text, 1, 2 * SaltLen))
      iv == FromHex(Slice(enc_text, (2 * SaltLen) + 1, 2 * (SaltLen + IvLen)))
      ciphertext == B64Decode(Slice(enc_text, (2 * (SaltLen + IvLen)) + 1,
                                    Len(enc_text)))
  IN IF ~salt.ok \/ ~iv.ok \/ ~ciphertext.ok THEN Fail
     ELSE LET key == Pbkdf2(passphrase, salt.val)
              padded == CbcDecrypt(key, iv.val, ciphertext.val)
          IN IF ~padded.ok THEN Fail
             ELSE IF ~Pkcs7Unpad(padded.val).ok THEN Fail
             ELSE Utf8Decode(Pkcs7Unpad(padded.val).val)

\* _decrypt, lines 100-115
_decrypt(enc_text, sid) ==
  LET passphrase == AsciiBytes(Slice(sid, 1, PassLen))
      salt == FromHex(Slice(enc_text, 1, 2 * SaltLen))
      iv == FromHex(Slice(enc_text, (2 * SaltLen) + 1, 2 * (SaltLen + IvLen)))
      ciphertext == B64Decode(Slice(enc_text, (2 * (SaltLen + IvLen)) + 1,
                                    Len(enc_text)))
  IN IF ~salt.ok \/ ~iv.ok \/ ~ciphertext.ok THEN Fail
     ELSE LET key == Pbkdf2(passphrase, salt.val)
              padded == CbcDecrypt(key, iv.val, ciphertext.val)
          IN IF ~padded.ok THEN Fail
             ELSE IF ~Pkcs7Unpad(padded.val).ok THEN Fail
             ELSE Utf8Decode(Pkcs7Unpad(padded.val).val)

(***************************************************************************)
(* The client specification                                                *)
(***************************************************************************)
\* no call is under way and nothing has been recorded yet
TasksIdle ==
  /\ pc = [t \in Tasks |-> "idle"]
  /\ force = [t \in Tasks |-> FALSE]
  /\ caller = [t \in Tasks |-> "top"]
  /\ retry = [t \in Tasks |-> 0]
  /\ ret = [t \in Tasks |-> None]
  /\ wake = [t \in Tasks |-> 0]
  /\ rsa_now = [t \in Tasks |-> 0]
  /\ result = [t \in Tasks |-> None]
  /\ calls = 0
  /\ gets = [t \in Tasks |-> 0]
  /\ relogins = [t \in Tasks |-> 0]
  /\ lastSend = -1
  /\ gap = -1
  /\ unthrottled = {}
  /\ sent = [k \in Kinds |-> 0]
  /\ clear_sent = {}
  /\ last_login = NoLogin
  /\ last_get = "none"

\* DhLotteryClient.__init__ (lines 80-107), at a clock reading far from 0;
\* sess and li are the session and the authenticated flag
ClientState(sess, li) ==
  /\ now = FirstReading
  /\ session = sess
  /\ logged_in = li
  /\ lock = None
  /\ lockq = <<>>
  /\ reqlock = None
  /\ reqq = <<>>
  /\ last_request_time = 0
  /\ current_user_agent \in USER_AGENTS
  /\ ua_rotation_count = 0
  /\ ua_rotation_interval \in RotationIntervals
  /\ old_ua = 0
  /\ consecutive_failures = 0
  /\ circuit_open_time = 0
  /\ cached_rsa_key = None
  /\ rsa_key_time = 0
  /\ TasksIdle

ClientInit == ClientState(None, FALSE)

\* the answers are not fixed beforehand: each visit's is drawn as it comes
NoAnswers ==
  LET x == [kind |-> "exception", cookies |-> <<>>, history |-> <<>>,
            headers |-> <<>>]
  IN [root |-> x, game |-> x, jar |-> {}]

\* DhPension720.__init__, lines 130-131
BuyFields ==
  /\ jsessionid = None
  /\ bpc = "idle"
  /\ buys = 0
  /\ groups = <<>>
  /\ round_info = NoDict
  /\ p1 = NoDict
  /\ p2 = NoDict
  /\ phase3 = [kind |-> "none", p |-> NoDict]
  /\ outcome = NoOutcome
  /\ posts = <<>>

BuyIdle == BuyFields /\ answers = NoAnswers

CipherIdle ==
  /\ cpc = "idle"
  /\ c_plain = <<>>
  /\ c_sid = <<>>
  /\ c_salt = <<>>
  /\ c_iv = <<>>
  /\ c_env = <<>>
  /\ c_out = [via |-> "none", ok |-> FALSE, val |-> <<>>]

\* the add-on's main module before it serves anything
Presses == {"p1", "p2"}
NoPress == [pc |-> "idle", by |-> "none"]

AppIdle ==
  /\ turn = "idle"
  /\ addon = "none"
  /\ last_purchase_time = -1
  /\ press = [p \in Presses |-> NoPress]
  /\ entered = <<>>

Init == ClientInit /\ BuyIdle /\ CipherIdle /\ AppIdle

TaskStep(t) ==
  \/ LoginAcquired(t)
  \/ WarmupDone(t)
  \/ KeyResp(t)
  \/ EncryptDone(t)
  \/ LoginResp(t)
  \/ GwlAcquired(t)
  \/ GetResp(t)
  \/ PledgeResp(t)
  \/ ThrottleAcquired(t)
  \/ SleepDone(t)

Next ==
  \/ Tick
  \/ \E t \in Tasks, f \in BOOLEAN : StartLogin(t, f)
  \/ \E t \in Tasks, r \in Retries : StartGet(t, r)
  \/ \E t \in Tasks : StartPledge(t)
  \/ \E t \in Tasks : LoginAcquired(t)
  \/ \E t \in Tasks : WarmupDone(t)
  \/ \E t \in Tasks : KeyResp(t)
  \/ \E t \in Tasks : EncryptDone(t)
  \/ \E t \in Tasks : LoginResp(t)
  \/ \E t \in Tasks : GwlAcquired(t)
  \/ \E t \in Tasks : GetResp(t)
  \/ \E t \in Tasks : PledgeResp(t)
  \/ \E t \in Tasks : ThrottleAcquired(t)
  \/ \E t \in Tasks : SleepDone(t)

Spec == Init /\ [][Next]_vars

\* the event loop runs every task that can run; network calls, worker
\* threads and sleeps complete
FairSpec == Spec /\ \A t \in Tasks : WF_vars(TaskStep(t))

(***************************************************************************)
(* The client in use: it has made requests and logins before.  A key was   *)
(* cached about one lifetime ago, the next rotation of the identity is two *)
(* requests away, and either it is authenticated or its last logins        *)
(* failed; its session is open, or it is unauthenticated and its session   *)
(* has been closed.  The histories count from here.                        *)
(***************************************************************************)
\* the ages of the cached key: one second short of its lifetime, and one
\* second later
KeyAges == {_rsa_key_ttl - 1, _rsa_key_ttl}

\* the authenticated flag with the failure count it can stand with
AuthStates == {<<TRUE, 0>>, <<FALSE, 3>>}

UsedInit ==
  /\ now = FirstReading
  /\ \E a \in AuthStates :
       /\ logged_in = a[1]
       /\ consecutive_failures = a[2]
       \* close() (lines 134-137) leaves no session and no authentication
       /\ session \in IF a[1] THEN {"open"} ELSE {None, "open"}
  /\ lock = None
  /\ lockq = <<>>
  /\ reqlock = None
  /\ reqq = <<>>
  /\ last_request_time = FirstReading - _min_request_interval
  /\ current_user_agent \in USER_AGENTS
  /\ ua_rotation_interval \in RotationIntervals
  /\ ua_rotation_count = ua_rotation_interval - 2
  /\ old_ua = 0
  /\ circuit_open_time = 0
  /\ cached_rsa_key = "good"
  /\ \E age \in KeyAges : rsa_key_time = FirstReading - age
  /\ TasksIdle
  /\ BuyIdle
  /\ CipherIdle
  /\ AppIdle

UsedSpec == UsedInit /\ [][Next]_vars

\* the client with callers that may be cancelled in the throttle sleep
CancelNext ==
  \/ Next
  \/ \E t \in Tasks : CancelSleep(t)

CancelSpec == Init /\ [][CancelNext]_vars

(***************************************************************************)
(* The purchase specification: one DhPension720 on a client that has been  *)
(* constructed, and may have opened its session and logged in              *)
(***************************************************************************)
BuyInit ==
  /\ \E sl \in {<<None, FALSE>>, <<"open", FALSE>>, <<"open", TRUE>>} :
       ClientState(sl[1], sl[2])
  /\ BuyIdle
  /\ CipherIdle
  /\ AppIdle

BuyNext ==
  \/ \E g \in GroupChoices : StartBuy(g)
  \/ RootResp
  \/ GameResp
  \/ RoundResp
  \/ OrderResp
  \/ PurchaseResp
  \/ VerifyResp

BuySpec == BuyInit /\ [][BuyNext]_vars

(***************************************************************************)
(* The purchase client over its lifetime: purchases, balance queries, and  *)
(* the main client closed and logged in again under it.                    *)
(***************************************************************************)
\* async_get_balance, lines 308-309
StartBalance ==
  /\ bpc \in {"idle", "done"}
  /\ buys < MaxBuys
  /\ buys' = buys + 1
  /\ groups' = <<>>
  /\ round_info' = NoDict
  /\ p1' = NoDict
  /\ p2' = NoDict
  /\ phase3' = [kind |-> "none", p |-> NoDict]
  /\ posts' = <<>>
  /\ SessionThen(<<>>)
  /\ UNCHANGED jsessionid
  /\ BuyFrame

\* async_get_balance, lines 313-317: the answer gives the balance, or the
\* GET or its parsing raises
BalanceResp ==
  /\ bpc = "balance_resp"
  /\ bpc' = "done"
  /\ \E ok \in BOOLEAN :
       outcome' = IF ok THEN [NoOutcome EXCEPT !.kind = "returned"]
                  ELSE Raised("ClientError", "")
  /\ UNCHANGED <<jsessionid, buys, groups, round_info, p1, p2, phase3, posts,
                 histVars>>
  /\ BuyFrame

\* a close() that takes the sub-service identifier with it
Close_forgetsIdentifier ==
  /\ session # None
  /\ bpc \in {"idle", "done"}
  /\ \A t \in Tasks :
       pc[t] \in {"idle", "login_resp", "get_resp", "pledge_resp"}
  /\ session' = None
  /\ logged_in' = FALSE
  /\ jsessionid' = None
  /\ UNCHANGED <<now, lock, lockq, consecutive_failures, last_login, last_get,
                 circuit_open_time, cached_rsa_key, rsa_key_time,
                 current_user_agent, throttleVars, taskVars, histVars,
                 bpc, buys, groups, round_info, p1, p2, phase3, outcome,
                 posts, answers, cipherVars, appVars>>

\* DhLotteryClient.close, called outside every lock, while no caller is on
\* its way to a request of the session
Close ==
  /\ session # None
  /\ bpc \in {"idle", "done"}
  /\ \A t \in Tasks :
       pc[t] \in {"idle", "login_resp", "get_resp", "pledge_resp"}
  /\ session' = None
  /\ logged_in' = FALSE
  /\ UNCHANGED <<now, lock, lockq, consecutive_failures, last_login, last_get,
                 circuit_open_time, cached_rsa_key, rsa_key_time,
                 current_user_agent, throttleVars, taskVars, histVars,
                 buyVars, cipherVars, appVars>>

\* login_account line 222: the purchase client is made for a client that
\* has logged in
LifeInit ==
  /\ ClientState("open", TRUE)
  /\ BuyIdle
  /\ CipherIdle
  /\ AppIdle

\* the operations of one account's updater come one after the other: one
\* login, after a balance query, and the next operation when the login is
\* over
LifeLogin(f) ==
  /\ bpc = "done"
  /\ groups = <<>>
  /\ calls = 0
  /\ StartLogin("t1", f)

\* one purchase at most, as the first operation; the other operations are
\* balance queries
LifeBuy(g) ==
  /\ pc["t1"] = "idle"
  /\ buys = 0
  /\ StartBuy(g)

LifeBalance ==
  /\ pc["t1"] = "idle"
  /\ StartBalance

LifeNext ==
  \/ \E g \in GroupChoices : LifeBuy(g)
  \/ LifeBalance
  \/ RootResp
  \/ GameResp
  \/ RoundResp
  \/ OrderResp
  \/ PurchaseResp
  \/ VerifyResp
  \/ BalanceResp
  \/ Close
  \/ \E f \in BOOLEAN : LifeLogin(f)
  \/ WarmupDone("t1")
  \/ KeyResp("t1")
  \/ EncryptDone("t1")
  \/ SleepDone("t1")
  \/ LoginResp("t1")

LifeSpec == LifeInit /\ [][LifeNext]_vars

\* the client with a close() that may come between its callers' steps
CloseNext ==
  \/ Next
  \/ Close

CloseSpec == Init /\ [][CloseNext]_vars

(***************************************************************************)
(* The session specification: _ensure_session, as _async_buy enters it, on *)
(* every combination of answers to the two visits and of cookie stores     *)
(***************************************************************************)
SessionInit ==
  /\ \E sl \in {<<None, FALSE>>, <<"open", FALSE>>, <<"open", TRUE>>} :
       ClientState(sl[1], sl[2])
  /\ BuyFields
  /\ answers \in [root : VisitResponses, game : VisitResponses, jar : Jars]
  /\ CipherIdle
  /\ AppIdle

EnsureStart == \E g \in GroupChoices : StartBuy(g)

EnsureRoot == RootAnswer(answers.root)

EnsureGame == GameAnswer(answers.game, answers.jar)

SessionNext ==
  \/ EnsureStart
  \/ EnsureRoot
  \/ EnsureGame

SessionSpec == SessionInit /\ [][SessionNext]_vars

(***************************************************************************)
(* The cipher specification: a plaintext and a session identifier are      *)
(* chosen, _encrypt is applied, then _decrypt to the envelope as returned  *)
(* or to the envelope percent-decoded                                      *)
(***************************************************************************)
\* the longest plaintext, in characters
MaxPlainLen == 40

Text(n, k) == [i \in 1..n |-> 48 + ((i * k) % 75)]

Plaintexts ==
  {Text(n, k) : n \in {0, 1, 10, 15, 16, 31, 32, MaxPlainLen}, k \in {1, 7}}
  \cup {<<82, 61, 44032, 38, 233>>}

SessionIds ==
  {[i \in 1..n |-> B64[((i * k) % 62) + 1]] : n \in {32, 40}, k \in {3, 5}}

\* os.urandom(32) and os.urandom(16)
Salts == {[i \in 1..SaltLen |-> (i * k) % 256] : k \in {0, 37, 101}}
Ivs == {[i \in 1..IvLen |-> (255 + k - (i * 13)) % 256] : k \in {0, 90}}

CipherInit ==
  /\ ClientInit
  /\ BuyIdle
  /\ AppIdle
  /\ cpc = "chosen"
  /\ c_plain \in Plaintexts
  /\ c_sid \in SessionIds
  /\ c_salt = <<>>
  /\ c_iv = <<>>
  /\ c_env = <<>>
  /\ c_out = [via |-> "none", ok |-> FALSE, val |-> <<>>]

CipherFrame ==
  UNCHANGED <<now, clientVars, current_user_agent, throttleVars, taskVars,
              histVars, buyVars, appVars>>

\* _encrypt(c_plain, c_sid)
Encrypt ==
  /\ cpc = "chosen"
  /\ \E salt \in Salts, iv \in Ivs :
       /\ c_salt' = salt
       /\ c_iv' = iv
       /\ c_env' = EncryptWith(c_plain, c_sid, salt, iv)
  /\ cpc' = "encrypted"
  /\ UNCHANGED <<c_plain, c_sid, c_out>>
  /\ CipherFrame

\* _decrypt(c_env, c_sid)
Decrypt ==
  /\ cpc = "encrypted"
  /\ c_out' = [via |-> "direct"] @@ _decrypt(c_env, c_sid)
  /\ cpc' = "decrypted"
  /\ UNCHANGED <<c_plain, c_sid, c_salt, c_iv, c_env>>
  /\ CipherFrame

\* _decrypt of the envelope after one percent-decoding
DecryptUnquoted ==
  /\ cpc = "encrypted"
  /\ c_out' = [via |-> "unquoted"] @@ _decrypt(Unquote(c_env), c_sid)
  /\ cpc' = "decrypted"
  /\ UNCHANGED <<c_plain, c_sid, c_salt, c_iv, c_env>>
  /\ CipherFrame

CipherNext == Encrypt \/ Decrypt \/ DecryptUnquoted

CipherSpec == CipherInit /\ [][CipherNext]_vars

(***************************************************************************)
(* dhyeongeum720/main.py, periodic_update: one task walks the accounts in  *)
(* order.  The first account's client is the client modelled above and the *)
(* task is t1; the second account stands behind it in the loop.            *)
(***************************************************************************)
AppFrame ==
  UNCHANGED <<now, clientVars, current_user_agent, throttleVars, taskVars,
              histVars, buyVars, cipherVars>>

AccountsInit ==
  /\ ClientInit
  /\ BuyIdle
  /\ CipherIdle
  /\ turn = "A"
  /\ addon = "dhyeongeum720"
  /\ last_purchase_time = -1
  /\ press = [p \in Presses |-> NoPress]
  /\ entered = <<>>

\* the first account is not logged in: login_account makes its client and
\* awaits async_login()
LoginAccount ==
  /\ turn = "A"
  /\ calls = 0
  /\ ~logged_in
  /\ StartLogin("t1", FALSE)

\* login_account returned (it swallows every error); update_account_sensors
\* returns at once when the account is not logged in and awaits the balance
\* otherwise
LoginAccountDone ==
  /\ turn = "A"
  /\ calls = 1
  /\ pc["t1"] = "idle"
  /\ turn' = IF logged_in THEN "A_update" ELSE "B"
  /\ UNCHANGED <<addon, last_purchase_time, press, entered>>
  /\ AppFrame

\* the balance request of the first account is answered, or fails
UpdateAccountSensors ==
  /\ turn = "A_update"
  /\ \E ok \in BOOLEAN :
       /\ logged_in' = (ok /\ logged_in)
       /\ turn' = "B"
  /\ UNCHANGED <<now, session, lock, lockq, consecutive_failures, last_login, last_get,
                 circuit_open_time, cached_rsa_key, rsa_key_time,
                 current_user_agent, throttleVars, taskVars, histVars,
                 buyVars, cipherVars, addon, last_purchase_time, press,
                 entered>>

\* the loop reaches the second account and serves it
OtherAccount ==
  /\ turn = "B"
  /\ turn' = "sleep"
  /\ UNCHANGED <<addon, last_purchase_time, press, entered>>
  /\ AppFrame

AccountsNext ==
  \/ Tick
  \/ LoginAccount
  \/ WarmupDone("t1")
  \/ KeyResp("t1")
  \/ EncryptDone("t1")
  \/ SleepDone("t1")
  \/ LoginResp("t1")
  \/ LoginAccountDone
  \/ UpdateAccountSensors
  \/ OtherAccount

AccountsSpec == AccountsInit /\ [][AccountsNext]_vars

(***************************************************************************)
(* The double-press guard of the purchase handlers: dhlottery/main.py      *)
(* (MQTT button and REST route) and dhyeongeum720/main.py (REST route),    *)
(* for one account and the one-ticket pension purchase.                    *)
(***************************************************************************)
\* the handlers an add-on has for the key
Entries(a) == IF a = "dhlottery" THEN {"mqtt", "rest"} ELSE {"rest"}

\* the window a handler compares with
Cooldown(a) ==
  IF a = "dhlottery" THEN _lottery_cooldown ELSE _pension_cooldown

\* time.monotonic() counts from the start of the host, time.time() from the
\* epoch
Monotonic == now - BootTime

Suppressed(t, a) ==
  last_purchase_time # -1 /\ t - last_purchase_time < Cooldown(a)

GuardInit ==
  /\ ClientInit
  /\ BuyIdle
  /\ CipherIdle
  /\ turn = "idle"
  /\ addon \in {"dhlottery", "dhyeongeum720"}
  /\ last_purchase_time = -1
  /\ press = [p \in Presses |-> NoPress]
  /\ entered = <<>>

\* execute_pension_purchase up to its await: the guard, then async_buy_1()
PressButton(p) ==
  /\ press[p].pc = "idle"
  /\ "mqtt" \in Entries(addon)
  /\ IF Suppressed(Monotonic, addon)
       THEN /\ press' = [press EXCEPT ![p] = [pc |-> "ignored", by |-> "mqtt"]]
            /\ UNCHANGED entered
       ELSE /\ press' = [press EXCEPT ![p] = [pc |-> "buying", by |-> "mqtt"]]
            /\ entered' = Append(entered, now)
  /\ UNCHANGED <<turn, addon, last_purchase_time>>
  /\ AppFrame

\* async_buy_1() returned to execute_pension_purchase, or raised
ButtonDone(p) ==
  /\ press[p] = [pc |-> "buying", by |-> "mqtt"]
  /\ \E ok \in BOOLEAN :
       last_purchase_time' = IF ok THEN Monotonic ELSE last_purchase_time
  /\ press' = [press EXCEPT ![p].pc = "done"]
  /\ UNCHANGED <<turn, addon, entered>>
  /\ AppFrame

\* pension_buy and purchase_1 up to their await: the guard, the stamp, then
\* async_buy_1()
CallRoute(p) ==
  /\ press[p].pc = "idle"
  /\ IF Suppressed(now, addon)
       THEN /\ press' = [press EXCEPT ![p] = [pc |-> "ignored", by |-> "rest"]]
            /\ UNCHANGED <<last_purchase_time, entered>>
       ELSE /\ press' = [press EXCEPT ![p] = [pc |-> "buying", by |-> "rest"]]
            /\ last_purchase_time' = now
            /\ entered' = Append(entered, now)
  /\ UNCHANGED <<turn, addon>>
  /\ AppFrame

\* async_buy_1() returned to the route, or raised
RouteDone(p) ==
  /\ press[p] = [pc |-> "buying", by |-> "rest"]
  /\ press' = [press EXCEPT ![p].pc = "done"]
  /\ UNCHANGED <<turn, addon, last_purchase_time, entered>>
  /\ AppFrame

\* the longer window goes by
Wait ==
  /\ now < FirstReading + _lottery_cooldown
  /\ now' = now + _lottery_cooldown
  /\ UNCHANGED <<clientVars, current_user_agent, throttleVars, taskVars,
                 histVars, buyVars, cipherVars, appVars>>

GuardNext ==
  \/ Tick
  \/ Wait
  \/ \E p \in Presses : PressButton(p)
  \/ \E p \in Presses : ButtonDone(p)
  \/ \E p \in Presses : CallRoute(p)
  \/ \E p \in Presses : RouteDone(p)

GuardSpec == GuardInit /\ [][GuardNext]_vars

(***************************************************************************)
(* Properties of the field cipher                                          *)
(***************************************************************************)
HasEscape(s) == \E i \in 1..Len(s) : s[i] = "%"

ResultCode == DictGet(p2, "resultCode", "")
DeclaredFailCnt == PyInt(DictGet(p2, "failCnt", <<"0">>))
Phase3Failed ==
  \/ phase3.kind # "ok"
  \/ ~PyInt(DictGet(phase3.p, "deposit", <<"0">>)).ok

\* C4: a purchase-execution response with result code 120 ends the purchase
\* with the purchase-failed error carrying the failed-ticket descriptor, and
\* one with any code other than 100 and 110 (or none) ends it with the
\* purchase-failed error carrying that code; no outcome is returned.
C4_FailureCodesRaisePurchaseError ==
  (bpc = "done" /\ p2.got /\ ResultCode \notin {"100", "110"}) =>
    /\ outcome.kind = "raised"
    /\ outcome.exc = "DhPension720PurchaseError"
    /\ outcome.detail = IF ResultCode = "120"
                          THEN DictGet(p2, "failTicket", "")
                          ELSE ResultCode

\* C5: a purchase-execution response with result code 110 raises nothing:
\* the verification POST is sent and the outcome returned carries the failed
\* count and the failed-ticket descriptor the response declares.
C5_PartialSuccessReturns ==
  (bpc = "done" /\ p2.got /\ ResultCode = "110" /\ DeclaredFailCnt.ok) =>
    /\ outcome.kind = "returned"
    /\ posts = <<"makeOrderNo", "connPro", "checkDeposit">>
    /\ outcome.fail_count = DeclaredFailCnt.val
    /\ outcome.fail_tickets = DictGet(p2, "failTicket", "")

\* C6 as stated: every outcome returned for result code 100 has a failed
\* count of 0.
C6_FullSuccessHasNoFailures ==
  (bpc = "done" /\ outcome.kind = "returned" /\ ResultCode = "100") =>
    outcome.fail_count = 0

\* C6: every outcome returned for result code 100 has the failed count the
\* purchase-execution response declares (0 when it declares none) and the
\* failed-ticket descriptor it declares.
C6_FullSuccessKeepsDeclaredFailures ==
  (bpc = "done" /\ outcome.kind = "returned" /\ ResultCode = "100") =>
    /\ outcome.fail_count = DeclaredFailCnt.val
    /\ outcome.fail_tickets = DictGet(p2, "failTicket", "")
    /\ ("failCnt" \notin p2.keys => outcome.fail_count = 0)

C6_Witness ==
  /\ bpc = "done"
  /\ outcome.kind = "returned"
  /\ ResultCode = "100"
  /\ "failCnt" \in p2.keys
  /\ outcome.fail_count = 2

\* C7: when the round-status query answers with a remaining time of 0 or
\* less, or with none, the purchase ends with the error raised by the round
\* check (the sales-closed message whenever a round number was reported) and
\* no encrypted POST has been sent.
C7_SalesClosedGuard ==
  (round_info.got /\ DictGet(round_info, "remainTime", 0) <= 0) =>
    /\ bpc = "done"
    /\ outcome.kind = "raised"
    /\ outcome.exc = "DhPension720PurchaseError"
    /\ (DictGet(round_info, "round", 0) # 0 => outcome.detail = "sales closed")
    /\ posts = <<>>

C7_Witness ==
  /\ bpc = "done"
  /\ round_info.got
  /\ "remainTime" \in round_info.keys
  /\ round_info.remainTime = 0
  /\ DictGet(round_info, "round", 0) # 0
  /\ outcome.detail = "sales closed"

\* C8: once the purchase-execution response carries result code 100 or 110,
\* the purchase returns an outcome whatever the verification phase does, and
\* the outcome's balance is 0 when the verification phase failed.
C8_VerificationBestEffort ==
  (bpc = "done" /\ p2.got /\ ResultCode \in {"100", "110"}) =>
    /\ outcome.kind = "returned"
    /\ (Phase3Failed => outcome.deposit = 0)

(***************************************************************************)
(* Properties of the client                                                *)
(***************************************************************************)
\* C1: when the first raw GET of async_get_with_login(retry=1) fails with
\* an API-level error, the call forces a relogin, retries the GET once and
\* then returns the second response's data or raises: a call that has
\* started its forced relogin always comes to an end, having made at most
\* two GETs.
C1_RetryAfterApiErrorCompletes ==
  \A t \in Tasks :
    (relogins[t] > 0) ~> (pc[t] = "idle" /\ result[t] # None /\ gets[t] <= 2)

\* C2: no client operation blocks indefinitely: provided every network
\* call, worker thread and sleep completes, every call that was started
\* eventually returns or raises.
C2_EveryCallEnds ==
  \A t \in Tasks : (pc[t] # "idle") ~> (pc[t] = "idle")

\* C9: the time between two consecutive requests of the account is at least
\* the configured minimum interval.
C9_RequestsSpaced == gap = -1 \/ gap >= _min_request_interval

\* C10: every outbound request of the account is preceded by a pass through
\* _throttle_request.
C10_AllRequestsThrottled == unthrottled = {}

(***************************************************************************)
(* Properties of the throttle, the login and the key cache                 *)
(***************************************************************************)
\* the task is inside _throttle_request's critical section
InThrottle(t) == pc[t] = "sleep"

\* what the throttle sequence reads and writes
ThrottleState == <<last_request_time, ua_rotation_count,
                   ua_rotation_interval, old_ua>>

\* C11: the throttle sequence is mutually exclusive.  At most one task is
\* inside it, and that task holds the request lock; while it is inside, the
\* last-request time, the request counter and the rotation state are not
\* touched by anyone else; a task waiting for the throttle enters only once
\* the lock is free and it is first in line.
C11_ThrottleExclusive ==
  /\ [](/\ Cardinality({t \in Tasks : InThrottle(t)}) <= 1
        /\ \A t \in Tasks : InThrottle(t) => reqlock = t)
  /\ [][\A t \in Tasks :
         /\ (InThrottle(t) /\ InThrottle(t)') => UNCHANGED ThrottleState
         /\ (pc[t] = "throttle_wait" /\ pc'[t] # "throttle_wait")
              => (reqlock = None /\ Head(reqq) = t)]_vars

\* one task sleeps inside the throttle while the other waits for it
C11_Witness ==
  \E t, u \in Tasks :
    /\ InThrottle(t)
    /\ pc[u] = "throttle_wait"
    /\ reqq = <<u>>

\* the task is between entering and leaving async_login's critical section
InLogin(t) ==
  \/ pc[t] \in {"warmup_resp", "key_resp", "encrypt", "login_resp"}
  \/ pc[t] \in {"sleep", "throttle_wait"} /\ ret[t] \in {"key", "login"}

\* C12: concurrent logins serialize.  At most one login procedure is in
\* flight, run by the holder of the login lock, and a login without force is
\* never in flight on an authenticated client; a caller of login(force=false)
\* that waited for the lock and finds the client authenticated returns
\* without sending anything.
C12_LoginsSerialize ==
  /\ [](/\ Cardinality({t \in Tasks : InLogin(t)}) <= 1
        /\ \A t \in Tasks : InLogin(t) => (lock = t /\ (logged_in => force[t])))
  /\ [][\A t \in Tasks :
         (/\ pc[t] = "login_wait_lock" /\ pc'[t] # "login_wait_lock"
          /\ ~force[t] /\ logged_in)
           => (pc'[t] = "idle" /\ result'[t] = "returned" /\ sent' = sent)]_vars

\* the first of two concurrent login(force=false) calls has succeeded with
\* one login form, and the other is about to resume
C12_Witness ==
  \E t, u \in Tasks :
    /\ t # u
    /\ pc[u] = "login_wait_lock" /\ ~force[u]
    /\ pc[t] = "idle" /\ ~force[t] /\ result[t] = "returned"
    /\ logged_in /\ lock = None
    /\ sent["login"] = 1

\* the task has a GET of async_get_with_login in flight
InGet(t) ==
  \/ pc[t] = "get_resp"
  \/ pc[t] \in {"sleep", "throttle_wait"} /\ ret[t] = "get"

\* C13: logins and the GETs of async_get_with_login exclude each other.
\* While one task's login or forced relogin is in flight no other task's
\* GET is in flight, and while a GET is in flight no other task's login is.
C13_LoginExcludesGet ==
  \A t, u \in Tasks : t # u => ~(InLogin(t) /\ InGet(u))

\* a login is in flight while the other task waits to start its GET
C13_Witness ==
  \E t, u \in Tasks :
    /\ InLogin(t)
    /\ pc[u] = "gwl_wait_lock"
    /\ lockq = <<u>>

\* a GET is in flight while the other task waits to start its login
C13_WitnessGetFirst ==
  \E t, u \in Tasks :
    /\ InGet(t)
    /\ pc[u] = "login_wait_lock"
    /\ lockq = <<u>>

\* C14: login(force=false) on an authenticated client does nothing.  The
\* call returns at once; no request goes out; the authenticated flag, the
\* failure counter, the cached key, the active identity, the throttle state,
\* the session and the login lock are as they were.
C14_LoginNoOpWhenAuthenticated ==
  [][\A t \in Tasks :
       (logged_in /\ StartLogin(t, FALSE))
         => /\ pc'[t] = "idle"
            /\ result'[t] = "returned"
            /\ UNCHANGED <<sent, lastSend, logged_in, consecutive_failures,
                           cached_rsa_key, rsa_key_time, current_user_agent,
                           throttleVars, session, lock, lockq>>]_vars

\* one task has logged in and then called login(force=false) again, the
\* other task has never called anything: one warm-up, one key fetch and one
\* login form are all that went out
C14_Witness ==
  \E t, u \in Tasks :
    /\ t # u
    /\ pc[u] = "idle" /\ result[u] = None
    /\ pc[t] = "idle" /\ result[t] = "returned" /\ ~force[t]
    /\ calls = 2
    /\ logged_in
    /\ sent = [k \in Kinds |->
                 IF k \in {"warmup", "key", "login"} THEN 1 ELSE 0]
    /\ ua_rotation_count = 2

\* C15: the answer to the login form decides authentication.  When the
\* login endpoint answers, the client is authenticated afterwards exactly if
\* the status is 200 or 302 and the Location header or the response URL
\* has the success marker; otherwise async_login raises DhLotteryLoginError
\* and the client is unauthenticated.  When the request itself fails the
\* client is unauthenticated too and async_login raises DhLotteryError.
C15_LoginOutcome ==
  [][\A t \in Tasks :
       (pc[t] = "login_resp" /\ pc'[t] # "login_resp")
         => LET r == last_login'.resp IN
            /\ last_login'.task = t
            /\ r.kind \in {"response", "exception"}
            /\ logged_in' <=> (/\ r.kind = "response"
                               /\ r.status \in {200, 302}
                               /\ (r.location \/ r.url))
            /\ ~logged_in'
                 => /\ pc'[t] = "idle"
                    /\ result'[t] = IF r.kind = "response"
                                      THEN "DhLotteryLoginError"
                                      ELSE "DhLotteryError"]_vars

\* a login was answered 200 with the marker in the response URL only, and
\* the client is authenticated
C15_Witness ==
  /\ last_login.resp.kind = "response"
  /\ last_login.resp.status = 200
  /\ last_login.resp.url /\ ~last_login.resp.location
  /\ logged_in
  /\ pc[last_login.task] = "idle"
  /\ result[last_login.task] = "returned"

\* a login was answered 302 without the marker, the client is not
\* authenticated and the caller got the login error
C15_WitnessRejected ==
  /\ last_login.resp.kind = "response"
  /\ last_login.resp.status = 302
  /\ ~last_login.resp.url /\ ~last_login.resp.location
  /\ ~logged_in
  /\ pc[last_login.task] = "idle"
  /\ result[last_login.task] = "DhLotteryLoginError"

\* the breaker as the client's fields record it: opened at
\* _circuit_open_time, for _circuit_cooldown seconds
CircuitOpen == now - circuit_open_time < _circuit_cooldown

\* C16: the breaker opens at the threshold.  Once the consecutive
\* authentication failures have reached the threshold with no success in
\* between, the breaker is open (no run of the model lasts as long as the
\* cooldown, so it has not elapsed).
C16_BreakerOpenAtThreshold ==
  consecutive_failures >= _circuit_failure_threshold => CircuitOpen

\* C17: one successful login resets the failure counter.  Whenever the last
\* answer to a login form was a success, the consecutive-failure counter is
\* 0, whatever it was when the answer came.
C17_SuccessResetsCounter ==
  (/\ last_login.resp.kind = "response"
   /\ last_login.resp.status \in {200, 302}
   /\ (last_login.resp.location \/ last_login.resp.url))
    => consecutive_failures = 0

\* a login succeeded when the counter stood above the threshold, and the
\* counter is 0
C17_Witness ==
  /\ last_login.resp.kind = "response"
  /\ last_login.resp.status = 302
  /\ last_login.resp.location
  /\ last_login.failures > _circuit_failure_threshold
  /\ consecutive_failures = 0
  /\ logged_in

\* C18: credentials never go out in clear.  No request has carried the
\* username or the secret as a plaintext field.
C18_CredentialsOnlyEncrypted == clear_sent = {}

\* the secret, for its part, has only gone out encrypted
C18_SecretOnlyEncrypted == "password" \notin clear_sent

\* the cached key is there and younger than its lifetime
KeyFresh == cached_rsa_key # None /\ now - rsa_key_time < _rsa_key_ttl

\* C19: the cached key is not used past its expiry.  When _get_rsa_key is
\* entered with a cached key younger than the lifetime it returns that key
\* and nothing is sent; otherwise it goes through the throttle to fetch a
\* key.  A key is returned only from a fresh cache or from the answer to a
\* fetch, each fetch is one GET that follows a throttle pass, and no other
\* step sends a key request.
C19_CachedKeyWithinTtl ==
  /\ [][\A t \in Tasks :
         /\ (pc[t] = "warmup_resp" /\ pc'[t] # "warmup_resp")
              => IF KeyFresh
                   THEN /\ pc'[t] = "encrypt"
                        /\ sent' = sent
                        /\ UNCHANGED <<cached_rsa_key, rsa_key_time>>
                   ELSE /\ pc'[t] \in {"key_resp", "sleep", "throttle_wait"}
                        /\ ret'[t] = "key"
         /\ (pc[t] # "encrypt" /\ pc'[t] = "encrypt")
              => \/ pc[t] = "warmup_resp" /\ KeyFresh
                 \/ pc[t] = "key_resp"
         /\ (pc[t] # "key_resp" /\ pc'[t] = "key_resp")
              => /\ sent'["key"] = sent["key"] + 1
                 /\ last_request_time' = lastSend']_vars
  /\ [][sent'["key"] # sent["key"]
         => \E t \in Tasks : pc[t] # "key_resp" /\ pc'[t] = "key_resp"]_vars
  /\ []("key" \notin unthrottled)

\* the cached key had reached its lifetime, one key was fetched and cached,
\* and _get_rsa_key has returned it
C19_Witness ==
  \E t \in Tasks :
    /\ pc[t] = "encrypt"
    /\ sent["key"] = 1
    /\ cached_rsa_key = "good"
    /\ rsa_key_time >= FirstReading

\* the cached key was one second short of its lifetime and _get_rsa_key
\* has returned it without a fetch
C19_WitnessCached ==
  \E t \in Tasks :
    /\ pc[t] = "encrypt"
    /\ sent["key"] = 0
    /\ now - rsa_key_time = _rsa_key_ttl - 1

\* rotation fires in this step: the request counter goes back to 0
RotationFires == ua_rotation_count > 0 /\ ua_rotation_count' = 0

\* C20: rotation never repeats the identity.  With two or more identities
\* in the pool, a rotation leaves an active identity other than the one that
\* was active just before it (the one in use before the step, when the
\* session was already open).
C20_RotationNeverRepeats ==
  [][(Cardinality(USER_AGENTS) >= 2 /\ RotationFires)
       => /\ old_ua' \in USER_AGENTS
          /\ current_user_agent' \in USER_AGENTS \ {old_ua'}
          /\ session # None => old_ua' = current_user_agent]_vars

\* a rotation has fired and the active identity is not the one it replaced
C20_Witness ==
  /\ ua_rotation_count = 0
  /\ old_ua \in USER_AGENTS
  /\ current_user_agent # old_ua
  /\ \E k \in Kinds : sent[k] > 0

(***************************************************************************)
(* Properties of the identity, the sub-service session and the errors     *)
(***************************************************************************)
\* a throttle pass completes in this step (line 159)
ThrottlePasses == last_request_time' # last_request_time

SessionHeaders(r) ==
  {i \in 1..Len(r.headers) :
     /\ r.headers[i].eq
     /\ IsSessionName(r.headers[i].name)
     /\ r.headers[i].val # ""}

\* r has no direct cookies, no redirect history, and such a Set-Cookie line
HeaderOnly(r) ==
  /\ r.kind = "response"
  /\ r.cookies = <<>>
  /\ r.history = <<>>
  /\ SessionHeaders(r) # {}

HeaderValue(r) == r.headers[MinOf(SessionHeaders(r))].val

\* C22: the raw-header fallback.  When a visit of the sub-service (the root
\* or the game page) is answered with no direct cookies and no redirect
\* history but a Set-Cookie line whose name starts with JSESSIONID in any
\* case and whose value is not empty, _ensure_session succeeds and the cached
\* identifier is that value.
C22_HeaderFallback ==
  [][/\ (bpc = "root_resp" /\ bpc' # "root_resp" /\ HeaderOnly(answers.root))
          => /\ jsessionid' = HeaderValue(answers.root)
             /\ bpc' = "round_resp"
             /\ outcome' = NoOutcome
     /\ (bpc = "game_resp" /\ bpc' # "game_resp" /\ HeaderOnly(answers.game))
          => /\ jsessionid' = HeaderValue(answers.game)
             /\ bpc' = "round_resp"
             /\ outcome' = NoOutcome]_vars

\* the root visit was answered with the header only (a lower-case name
\* after two lines that do not count) and its value is cached
C22_Witness ==
  /\ HeaderOnly(answers.root)
  /\ bpc = "round_resp"
  /\ jsessionid = "S2"
  /\ outcome = NoOutcome

\* the same at the game page, after a root visit that gave nothing
C22_WitnessGamePage ==
  /\ ~HeaderOnly(answers.root)
  /\ HeaderOnly(answers.game)
  /\ answers.jar = {}
  /\ bpc = "round_resp"
  /\ jsessionid = "S2"

\* the answer to a visit gives a session identifier
VisitYields(r) == r.kind = "response" /\ Truthy(PickJsessionid(r))

\* the cookie store holds a session identifier, for the sub-domain or not
JarYields(jar) == \E c \in jar : c.key = "JSESSIONID" /\ c.value # ""

\* C23: _ensure_session gives up only when every strategy has failed.  On
\* a client with a session, when _ensure_session has raised, what it raised
\* is the session-acquisition error, and neither the root visit, nor the
\* game-page visit, nor the cookie store had an identifier to give.
C23_RaisesOnlyWhenAllFail ==
  (session # None /\ bpc = "done")
    => /\ outcome = Raised("DhPension720Error", "JSESSIONID")
       /\ ~VisitYields(answers.root)
       /\ ~VisitYields(answers.game)
       /\ ~JarYields(answers.jar)

\* the same, leaving aside the game-page visits that fail in transport:
\* every other failure of _ensure_session is the session-acquisition error
\* after all four strategies failed
C23_RaisesOnlyWhenAllFailUnlessGameVisitBreaks ==
  (session # None /\ bpc = "done" /\ answers.game.kind # "exception")
    => /\ outcome = Raised("DhPension720Error", "JSESSIONID")
       /\ ~VisitYields(answers.root)
       /\ ~VisitYields(answers.game)
       /\ ~JarYields(answers.jar)

\* C24: with an identifier cached, _ensure_session returns at once.  When
\* _async_buy is entered with a cached identifier, neither the root nor the
\* game page is visited, the identifier stays as it is and the caller is at
\* its round query in the same step.
C24_CachedSessionReturnsAtOnce ==
  [][(Truthy(jsessionid) /\ bpc \in {"idle", "done"} /\ buys' = buys + 1)
       => /\ jsessionid' = jsessionid
          /\ sent'["el_root"] = sent["el_root"]
          /\ sent'["game.jsp"] = sent["game.jsp"]
          /\ bpc' = "round_resp"
          /\ outcome' = NoOutcome]_vars

\* the second purchase found the identifier of the first: the root was
\* visited once only, and the round query is under way
C24_Witness ==
  /\ buys = 2
  /\ bpc = "round_resp"
  /\ Truthy(jsessionid)
  /\ sent["el_root"] = 1
  /\ sent["game.jsp"] <= 1

(***************************************************************************)
(* Properties of the add-on's main module                                  *)
(***************************************************************************)
\* the updater is suspended inside an operation on the first account
SuspendedInFirst ==
  \/ turn = "A" /\ pc["t1"] # "idle"
  \/ turn = "A_update"

\* C25: operations against different accounts never block one another:
\* whenever the periodic update of the second account is due, it is not
\* waiting for an operation on the first account's client (a throttle sleep,
\* a login that awaits its answer, a login lock) to come back.
C25_AccountsNeverBlock == ~(turn \in {"A", "A_update"} /\ SuspendedInFirst)

\* C26: of the attempts for one account and one kind of purchase that enter
\* the purchase protocol, no two are invoked within the pension cooldown of
\* one another, whichever entry point they came by.
C26_OnePurchasePerWindow ==
  \A i, j \in 1..Len(entered) :
    i < j => entered[j] - entered[i] >= _pension_cooldown

(***************************************************************************)
(* Properties of cancellation and of the errors of the client              *)
(***************************************************************************)
Cancelled(t) == pc[t] = "sleep" /\ result'[t] = "cancelled"

\* C27: a caller cancelled in the throttle sleep gets the cancellation,
\* sends no request and leaves the gate free for the next caller; the
\* last-request timestamp, the request counter and the active identity are
\* as they were.
C27_CancelledSleepLeavesNoTrace ==
  [][\A t \in Tasks :
       Cancelled(t) =>
         /\ pc'[t] = "idle"
         /\ reqlock = t
         /\ reqlock' = None
         /\ (reqq # <<>> => MayResume(reqlock', reqq', Head(reqq)))
         /\ sent' = sent
         /\ lastSend' = lastSend
         /\ last_request_time' = last_request_time
         /\ ua_rotation_count' = ua_rotation_count
         /\ ua_rotation_interval' = ua_rotation_interval
         /\ current_user_agent' = current_user_agent]_vars

\* a caller was cancelled in the sleep while another waited at the gate,
\* which is now free for that one
C27_Witness ==
  \E t, u \in Tasks :
    /\ t # u
    /\ result[t] = "cancelled"
    /\ pc[t] = "idle"
    /\ pc[u] = "throttle_wait"
    /\ MayResume(reqlock, reqq, u)

Errors == {"DhLotteryError", "DhLotteryLoginError", "DhAPIError"}

\* async_login raises to task t in this step
LoginRaises(t) ==
  /\ pc[t] \in {"key_resp", "encrypt", "login_resp"}
  /\ pc'[t] = "idle"
  /\ result'[t] \in Errors

\* C28: whenever async_login raises, from the key fetch, the encryption of
\* the credentials or the form submission, forced or not, the authenticated
\* flag is false afterwards.
C28_RaisedLoginClearsFlag ==
  [][\A t \in Tasks : LoginRaises(t) => ~logged_in']_vars

\* the same of the logins that are not forced, and of the raises of the
\* form submission
C28_RaisedLoginClearsFlagUnlessForcedBeforeSubmission ==
  [][\A t \in Tasks :
       (LoginRaises(t) /\ (~force[t] \/ pc[t] = "login_resp")) =>
         ~logged_in']_vars

\* async_get_with_login raises to task t because no retry is left (line 415)
RetriesExhausted(t) ==
  /\ pc[t] = "get_resp"
  /\ pc'[t] = "idle"
  /\ result'[t] = "DhLotteryLoginError"

\* C29: when async_get_with_login raises because its retries are exhausted,
\* the authenticated flag is false afterwards.
C29_ExhaustedRetriesClearFlag ==
  [][\A t \in Tasks : RetriesExhausted(t) => ~logged_in']_vars

\* the error async_get raises when the GET fails in transport (line 398)
TransportError == AsyncGetError("exception")

\* the GET of task t is answered with a JSON object without `data`, and the
\* call ends
MissingData(t) ==
  /\ pc[t] = "get_resp"
  /\ pc'[t] = "idle"
  /\ last_get' \in {"nodata", "non200_nodata"}

\* C30: a response whose JSON object lacks `data` is an error whatever the
\* HTTP status, and the error raised for it is of another kind than the
\* error raised when the same GET fails in transport.
C30_MissingDataIsItsOwnError ==
  [][\A t \in Tasks :
       MissingData(t) =>
         (result'[t] \in Errors /\ result'[t] # TransportError)]_vars

\* the first half alone: it is an error whatever the HTTP status
C30_MissingDataIsAnError ==
  [][\A t \in Tasks : MissingData(t) => result'[t] \in Errors]_vars

(***************************************************************************)
(* Properties of the purchase protocol, the retry budget and the guard     *)
(***************************************************************************)
Sent(endpoint) == \E i \in 1..Len(posts) : posts[i] = endpoint

HasOrderNo(p) == p.got /\ DictGet(p, "orderNo", "") # ""

\* C31: the purchase-execution request is sent only after order creation
\* returned a non-empty order number in the same invocation; an
\* order-creation answer without order number (or without envelope) ends
\* the call with an error, the order-creation error when the answer was
\* decrypted, and neither purchase execution nor verification is sent.
C31_PurchaseOnlyAfterOrderNumber ==
  /\ [](Sent("connPro") => HasOrderNo(p1))
  /\ [][(bpc = "order_resp" /\ ~HasOrderNo(p1')) =>
          /\ bpc' = "done"
          /\ posts' = posts
          /\ ~Sent("connPro") /\ ~Sent("checkDeposit")
          /\ outcome'.kind = "raised"
          /\ (p1'.got =>
                outcome' = Raised("DhPension720PurchaseError", "orderNo"))]_vars

\* order creation was answered with an empty order number and the call is
\* over
C31_Witness ==
  /\ bpc = "done"
  /\ p1.got
  /\ DictGet(p1, "orderNo", "") = ""
  /\ posts = <<"makeOrderNo">>
  /\ outcome = Raised("DhPension720PurchaseError", "orderNo")

InQueue(t, q) == \E i \in 1..Len(q) : q[i] = t

\* C34: no task waits for the login/request lock of the account while it
\* holds that lock.
C34_NoWaitForOwnLock ==
  \A t \in Tasks : ~(lock = t /\ InQueue(t, lockq))

Count(endpoint) == Cardinality({i \in 1..Len(posts) : posts[i] = endpoint})

\* C35: one invocation of _async_buy sends at most one order-creation POST,
\* at most one purchase-execution POST and at most one verification POST,
\* whether it returns or raises.
C35_EachPhaseAtMostOnce ==
  \A e \in {"makeOrderNo", "connPro", "checkDeposit"} : Count(e) <= 1

\* an invocation went through its three phases and is over
C35_Witness ==
  /\ bpc = "done"
  /\ posts = <<"makeOrderNo", "connPro", "checkDeposit">>

ApiLevel == {"unparseable", "non200", "non200_nodata"}

\* C36: a forced relogin is triggered only by an API-level error
\* (unparseable body or status other than 200); a GET that fails in
\* transport, or is answered 200 without `data`, ends the call with its
\* error, with no relogin and no second GET.
C36_ReloginOnlyOnApiError ==
  [][\A t \in Tasks :
       (pc[t] = "get_resp" /\ pc'[t] # "get_resp") =>
         /\ relogins'[t] > relogins[t] => last_get' \in ApiLevel
         /\ last_get' \in {"exception", "nodata"} =>
              /\ pc'[t] = "idle"
              /\ result'[t] = "DhLotteryError"
              /\ relogins'[t] = relogins[t]
              /\ gets'[t] = gets[t]
              /\ sent' = sent]_vars

\* a call with a retry left ended on a GET that failed in transport,
\* without relogin
C36_Witness ==
  \E t \in Tasks :
    /\ pc[t] = "idle"
    /\ result[t] = "DhLotteryError"
    /\ last_get = "exception"
    /\ retry[t] = 1
    /\ gets[t] = 1
    /\ relogins[t] = 0
    /\ calls = 1

\* C37: no request of a purchase phase (order creation, purchase execution,
\* verification) is sent while the authenticated flag of the owning client
\* is false.
C37_NoPurchaseWhenUnauthenticated ==
  [][posts' # posts /\ posts' # <<>> => logged_in]_vars

\* C38: whenever the authenticated flag is true, the client holds a
\* transport session that it has not closed.
C38_AuthenticatedHasSession == logged_in => session # None

\* the moment the stamp of the key was written, on the scale of now: a stamp
\* below the first reading of the wall clock was taken from time.monotonic()
RecordedAt ==
  IF last_purchase_time >= FirstReading
    THEN last_purchase_time
    ELSE last_purchase_time + BootTime

\* C39: the guard suppresses only inside the cooldown window: an attempt
\* that is suppressed comes no more than the cooldown after the last
\* recorded attempt for the key, whichever entry point recorded it.
C39_SuppressedOnlyInsideWindow ==
  [][\A p \in Presses :
       press[p].pc = "idle" /\ press'[p].pc = "ignored"
         => now - RecordedAt <= Cooldown(addon)]_vars

====
